---- MODULE Spec2Model ----
(***************************************************************************)
(* A model of the topology-checker rule engine: the linestring merging     *)
(* algorithm (src/src/algorithm/merge_lines.rs) and the overlap and        *)
(* intersection rules (src/src/rule/*.rs).  Coordinates are integer pairs  *)
(* <<x, y>>; the predicates of the geo crate (intersects, contains,        *)
(* is_closed) are computed with exact integer arithmetic.                  *)
(***************************************************************************)
EXTENDS Integers, Sequences, FiniteSets, TLC

VARIABLES
    xs,           \* the list of linestrings merge_linestrings is first called with
    linestrings,  \* merge_linestrings: the working Vec<Option<LineString>>
    i,            \* merge_linestrings: index of the `for i in 0..len` loop (1-based)
    prev_count,   \* merge_linestrings: `prev_count`
    pc,           \* merge_linestrings: "pass" inside the loop, "done" after return
    run,          \* 1: merge_linestrings(xs); 2: merge_linestrings applied to its own output
    out1,         \* the Vec returned by the first call
    joins,        \* history: the joins made by the last compute_linestring call
    rule,         \* the rule function being evaluated ("none" while merging)
    kind,         \* the geometry kind of the rule's inputs: selects the impl
    geoms,        \* the rule's `self` Vec
    others,       \* the rule's `other` Vec (must_not_overlap_with)
    candidates,   \* pairs the index join has still to yield
    addresses,    \* must_not_overlap: the `addresses` container
    geometry_errors, \* the rule's `geometry_errors` Vec
    emitted,      \* history: the pair each element of geometry_errors comes from
    topology_result, \* the TopologyResult the rule returns (Pending before the return)
    step,         \* must_not_intersect: the statement reached
    endpoints,    \* must_not_intersect: `endpoints` (the sorted inner points)
    subset,       \* must_not_intersect: `subset`
    kernel,       \* must_not_intersect: the value returned by intersections()
    points,       \* must_not_intersect: `points`
    results,      \* TopologyResults.0: the (rule name, TopologyResult) pairs to export
    cursor,       \* TopologyResults::export: the result and the error the loops have reached
    dataset,      \* the layers of the dataset being written (inside the transaction)
    committed,    \* the layers the destination holds durably
    outcome,      \* how the library call or the run ended ("none" while it runs)
    accessor,     \* the per-kind accessor called on topology_result
    command,      \* the rule subcommand the command line was parsed to
    input,        \* interactive mode: the outcome of the last read_line
    commands      \* interactive mode: the `commands` Vec

mergeVars == <<xs, linestrings, i, prev_count, pc, run, out1, joins>>

ruleVars == <<rule, kind, geoms, others, candidates, addresses, geometry_errors, emitted, topology_result>>

intersectVars == <<step, endpoints, subset, kernel, points>>

libVars == <<results, cursor, dataset, committed, outcome, accessor, command, input, commands>>

vars == <<mergeVars, ruleVars, intersectVars, libVars>>

----------------------------------------------------------------------------
(* Bounds of the model.                                                    *)

\* The largest total number of segments of the linestrings of an input list.
MaxSegs == 3
\* The largest number of segments of a closed linestring given with one more linestring.
MaxRingSegs == 4

----------------------------------------------------------------------------
(* Geometry primitives (geo crate semantics on integer coordinates).       *)

None == <<>>

\* Interactive mode has read nothing.
NoInput == [read |-> "none", lead |-> FALSE, words |-> <<>>, trail |-> FALSE]

\* The coordinates the inputs are drawn from: (1,1) lies inside the
\* segment (0,0)-(2,2), and (0,0),(2,0),(2,2) span a triangle.
Pts == { <<0, 0>>, <<2, 0>>, <<2, 2>>, <<1, 1>> }

Min(a, b) == IF a <= b THEN a ELSE b
Max(a, b) == IF a >= b THEN a ELSE b

\* robust orient2d: the sign of the cross product (b-a) x (c-a)
Orient(a, b, c) ==
    LET d == (b[1] - a[1]) * (c[2] - a[2]) - (b[2] - a[2]) * (c[1] - a[1])
    IN  IF d > 0 THEN 1 ELSE IF d < 0 THEN -1 ELSE 0

point_in_rect(p, a, b) ==
    /\ Min(a[1], b[1]) <= p[1] /\ p[1] <= Max(a[1], b[1])
    /\ Min(a[2], b[2]) <= p[2] /\ p[2] <= Max(a[2], b[2])

\* Coord intersects Line: the coordinate lies on the closed segment a-b.
CoordOnLine(p, a, b) == Orient(a, b, p) = 0 /\ point_in_rect(p, a, b)

\* Line intersects Line (closed segments a1-a2 and b1-b2 share a point).
LineIntersectsLine(a1, a2, b1, b2) ==
    IF a1 = a2 THEN CoordOnLine(a1, b1, b2)
    ELSE LET c11 == Orient(a1, a2, b1)
             c12 == Orient(a1, a2, b2)
         IN  IF c11 # c12
             THEN Orient(b1, b2, a1) # Orient(b1, b2, a2)
             ELSE IF c11 = 0
                  THEN \/ point_in_rect(b1, a1, a2) \/ point_in_rect(b2, a1, a2)
                       \/ point_in_rect(a1, b1, b2) \/ point_in_rect(a2, b1, b2)
                  ELSE FALSE

\* LineString intersects Coord: some segment of ls passes through p.
LsIntersectsCoord(ls, p) ==
    \E k \in 1..(Len(ls) - 1) : CoordOnLine(p, ls[k], ls[k + 1])

\* LineString intersects LineString: some pair of segments intersects.
LsIntersectsLs(a, b) ==
    \E k \in 1..(Len(a) - 1), m \in 1..(Len(b) - 1) :
        LineIntersectsLine(a[k], a[k + 1], b[m], b[m + 1])

\* LineString::is_closed: first coordinate equals last coordinate.
is_closed(ls) == ls[1] = ls[Len(ls)]

\* LineString contains Coord: p lies in the interior of ls (an end of ls
\* is interior only when ls is closed).
LsContainsCoord(ls, p) ==
    IF p = ls[1] \/ p = ls[Len(ls)] THEN is_closed(ls)
    ELSE \E k \in 1..(Len(ls) - 1) :
            \/ IF ls[k] = ls[k + 1] THEN p = ls[k]
               ELSE p # ls[k] /\ p # ls[k + 1] /\ CoordOnLine(p, ls[k], ls[k + 1])
            \/ k > 1 /\ p = ls[k]

\* LineString contains Line: the segment u-v is covered by the segments of ls.
LsContainsLine(ls, u, v) ==
    IF u = v THEN LsContainsCoord(ls, u)
    ELSE LET Break == {u, v} \cup { ls[k] : k \in { n \in 1..Len(ls) : CoordOnLine(ls[n], u, v) } }
             Strictly(p, q, x) == x # p /\ x # q /\ CoordOnLine(x, p, q)
         IN  \A p \in Break, q \in Break :
                (p # q /\ ~ \E x \in Break : Strictly(p, q, x)) =>
                    \E k \in 1..(Len(ls) - 1) :
                        CoordOnLine(p, ls[k], ls[k + 1]) /\ CoordOnLine(q, ls[k], ls[k + 1])

\* LineString contains LineString: every segment of rhs is contained.
LsContainsLs(ls, rhs) ==
    \A k \in 1..(Len(rhs) - 1) : LsContainsLine(ls, rhs[k], rhs[k + 1])

Rev(s) == [k \in 1..Len(s) |-> s[Len(s) + 1 - k]]

----------------------------------------------------------------------------
(* merge_lines.rs                                                          *)

\* merge_two with the second branch keeping the shared coordinate of b.
merge_two_no_skip(a, b) ==
    IF a[1] = b[1]
    THEN [ok |-> TRUE, ls |-> Rev(a) \o Tail(b), at |-> a[1]]
    ELSE IF a[Len(a)] = b[1]
    THEN [ok |-> TRUE, ls |-> a \o b, at |-> a[Len(a)]]
    ELSE IF a[Len(a)] = b[Len(b)]
    THEN [ok |-> TRUE, ls |-> a \o Tail(Rev(b)), at |-> a[Len(a)]]
    ELSE IF a[1] = b[Len(b)]
    THEN [ok |-> TRUE, ls |-> b \o Tail(a), at |-> a[1]]
    ELSE [ok |-> FALSE, ls |-> None, at |-> a[1]]

\* merge_two: joins a and b at the first pair of equal ends, tried in the
\* order (a.first,b.first), (a.last,b.first), (a.last,b.last), (a.first,b.last).
\* `at` is the coordinate of the join.
merge_two(a, b) ==
    IF a[1] = b[1]
    THEN [ok |-> TRUE, ls |-> Rev(a) \o Tail(b), at |-> a[1]]
    ELSE IF a[Len(a)] = b[1]
    THEN [ok |-> TRUE, ls |-> a \o Tail(b), at |-> a[Len(a)]]
    ELSE IF a[Len(a)] = b[Len(b)]
    THEN [ok |-> TRUE, ls |-> a \o Tail(Rev(b)), at |-> a[Len(a)]]
    ELSE IF a[1] = b[Len(b)]
    THEN [ok |-> TRUE, ls |-> b \o Tail(a), at |-> a[1]]
    ELSE [ok |-> FALSE, ls |-> None, at |-> a[1]]

\* rotate_start_point: the first coordinate of the endlessly repeated ring
\* equal to `at`, followed by the next `count` coordinates of the repetition.
rotate_start_point(linestring, at) ==
    LET count == Len(linestring)
        k == CHOOSE n \in 1..count :
                /\ linestring[n] = at
                /\ \A m \in 1..(n - 1) : linestring[m] # at
    IN  <<linestring[k]>> \o [j \in 1..count |-> linestring[((k + j - 1) % count) + 1]]

\* intersected_lines: the indices of the present linestrings that intersect
\* `linestring` (the slot of `linestring` itself has been taken and is None).
intersected_lines(ls_vec, linestring) ==
    { j \in 1..Len(ls_vec) : ls_vec[j] # None /\ LsIntersectsLs(ls_vec[j], linestring) }

\* The orders in which the parallel bridge may deliver a set of indices.
Orders(S) ==
    { o \in [1..Cardinality(S) -> S] : \A a, b \in 1..Cardinality(S) : a # b => o[a] # o[b] }

\* The closure of compute_linestring's find_map: the first end of some present
\* linestring, not contained in the ring, that equals a coordinate of the ring.
RingCoordOf(result, ls) ==
    LET hits == { n \in 1..Len(result) : ls[1] = result[n] \/ ls[Len(ls)] = result[n] }
        n0 == CHOOSE n \in hits : \A m \in hits : n <= m
    IN  IF hits = {} THEN None
        ELSE IF ls[1] = result[n0] THEN ls[1] ELSE ls[Len(ls)]

RECURSIVE FindRingCoord(_, _, _)
FindRingCoord(ls_vec, result, j) ==
    IF j > Len(ls_vec) THEN None
    ELSE IF ls_vec[j] = None \/ LsContainsLs(result, ls_vec[j])
         THEN FindRingCoord(ls_vec, result, j + 1)
         ELSE LET c == RingCoordOf(result, ls_vec[j])
              IN  IF c # None THEN c ELSE FindRingCoord(ls_vec, result, j + 1)

\* The special case of a closed result (lines 120-149).
RotateIfClosed(ls_vec, result) ==
    IF result # None /\ is_closed(result)
    THEN LET coord == FindRingCoord(ls_vec, result, 1)
         IN  IF coord # None THEN rotate_start_point(result, coord) ELSE result
    ELSE result

\* The number of intersected linestrings that touch coordinate p
\* (start_point_count, end_point_count).
TouchCount(ls_vec, idx, p) ==
    Cardinality({ j \in idx : LsIntersectsCoord(ls_vec[j], p) })

\* The merge condition with start_point_count tested for both ends.
ShouldMergeStartOnly(start_point_count, end_point_count, touches_start, touches_end) ==
    \/ start_point_count = 1 /\ touches_start
    \/ start_point_count = 1 /\ touches_end

\* The condition under which `other` is merged (lines 103-105).
ShouldMerge(start_point_count, end_point_count, touches_start, touches_end) ==
    \/ start_point_count = 1 /\ touches_start
    \/ end_point_count = 1 /\ touches_end

\* One iteration of the `for (index, other)` loop of compute_linestring.
\* acc = [result, to_remove, joins]; a join records its coordinate and the
\* number of present linestrings, not yet merged into the result, touching it.
ComputeStep(ls_vec, linestring, inter, acc, index) ==
    LET other == ls_vec[index]
        first == linestring[1]
        last == linestring[Len(linestring)]
        base == IF acc.result = None THEN linestring ELSE acc.result
        merged == merge_two(base, other)
        gone == { acc.to_remove[n] : n \in 1..Len(acc.to_remove) }
        present == { j \in 1..Len(ls_vec) : ls_vec[j] # None /\ j \notin gone }
        join == [at |-> merged.at, touching |-> TouchCount(ls_vec, present, merged.at)]
    IN  IF ShouldMerge(TouchCount(ls_vec, inter, first), TouchCount(ls_vec, inter, last),
                       LsIntersectsCoord(other, first), LsIntersectsCoord(other, last))
        THEN [result |-> RotateIfClosed(ls_vec, IF merged.ok THEN merged.ls ELSE base),
              to_remove |-> IF merged.ok THEN Append(acc.to_remove, index) ELSE acc.to_remove,
              joins |-> IF merged.ok THEN acc.joins \cup {join} ELSE acc.joins]
        ELSE acc

RECURSIVE ComputeFold(_, _, _, _, _, _)
ComputeFold(ls_vec, linestring, inter, ord, n, acc) ==
    IF n > Len(ord) THEN acc
    ELSE ComputeFold(ls_vec, linestring, inter, ord, n + 1,
                     ComputeStep(ls_vec, linestring, inter, acc, ord[n]))

\* compute_linestring, for one delivery order of the intersected linestrings.
compute_linestring(ls_vec, linestring, ord) ==
    ComputeFold(ls_vec, linestring, { ord[n] : n \in 1..Len(ord) }, ord, 1,
                [result |-> None, to_remove |-> <<>>, joins |-> {}])

\* The write-back without the else branch: the taken slot stays empty.
WriteBackComputedOnly(computed_result, linestring_ref) == computed_result

\* What merge_linestrings puts into slot i after compute_linestring (lines 184-191).
WriteBack(computed_result, linestring_ref) ==
    IF computed_result # None THEN computed_result ELSE linestring_ref

\* The loop never finds the counts equal.
ConvergedNever(prev, count) == FALSE

\* The loop ended after its first pass.
ConvergedAtOnce(prev, count) == TRUE

\* The test that ends the loop (line 199).
Converged(prev, count) == prev = count

Count(ls_vec) == Cardinality({ j \in 1..Len(ls_vec) : ls_vec[j] # None })

\* filter_map(|linestring| linestring).collect()
RECURSIVE Compact(_)
Compact(ls_vec) ==
    IF ls_vec = <<>> THEN <<>>
    ELSE IF Head(ls_vec) = None THEN Compact(Tail(ls_vec))
         ELSE <<Head(ls_vec)>> \o Compact(Tail(ls_vec))

----------------------------------------------------------------------------
(* Inputs of merge_linestrings.                                            *)

\* Linestrings with n coordinates, consecutive coordinates distinct.
LineStringsOfLen(n) ==
    { s \in [1..n -> Pts] : \A k \in 1..(n - 1) : s[k] # s[k + 1] }

RECURSIVE InputLists(_)
InputLists(budget) ==
    {<<>>} \cup UNION { UNION { { <<l>> \o rest : rest \in InputLists(budget - n) }
                                : l \in LineStringsOfLen(n + 1) }
                        : n \in 1..budget }

----------------------------------------------------------------------------
(* merge_linestrings as a state machine: one action per iteration of the   *)
(* `for i` loop, one for the end of a pass.                                *)

\* must_not_intersect is not running.
IntersectIdle ==
    /\ step = "idle" /\ endpoints = <<>> /\ subset = <<>>
    /\ kernel = [lines |-> <<>>, proper |-> {}, improper |-> {}]
    /\ points = <<>>

\* No accessor, export or command-line run is under way.
LibIdle ==
    /\ results = <<>> /\ cursor = <<1, 1>>
    /\ dataset = <<>> /\ committed = <<>>
    /\ outcome = [tag |-> "none"]
    /\ accessor = "none" /\ command = "none"
    /\ input = NoInput /\ commands = <<>>

\* No rule function is being evaluated.
RuleIdle ==
    /\ rule = "none" /\ kind = "none"
    /\ geoms = <<>> /\ others = <<>>
    /\ candidates = {} /\ addresses = {}
    /\ geometry_errors = <<>> /\ emitted = <<>>
    /\ topology_result = [tag |-> "Pending", errors |-> <<>>]
    /\ IntersectIdle

\* merge_linestrings is not running.
MergeIdle ==
    /\ xs = <<>> /\ linestrings = <<>> /\ i = 1 /\ prev_count = 0
    /\ pc = "idle" /\ run = 1 /\ out1 = <<>> /\ joins = {}

\* A closed linestring of up to MaxRingSegs segments together with one
\* single-segment linestring, in either order.
RingInputs ==
    LET rings == UNION { { r \in LineStringsOfLen(n + 1) : is_closed(r) } : n \in 2..MaxRingSegs }
    IN  UNION { { <<r, l>>, <<l, r>> } : r \in rings, l \in LineStringsOfLen(2) }

InitMerge ==
    /\ xs \in InputLists(MaxSegs) \cup RingInputs
    /\ linestrings = xs
    /\ i = 1
    /\ prev_count = 0
    /\ pc = "pass"
    /\ run = 1
    /\ out1 = <<>>
    /\ joins = {}
    /\ RuleIdle
    /\ LibIdle

\* linestrings[i] is None: the loop body does nothing.
SkipSlot ==
    /\ pc = "pass" /\ i <= Len(linestrings)
    /\ linestrings[i] = None
    /\ i' = i + 1
    /\ joins' = {}
    /\ UNCHANGED <<xs, linestrings, prev_count, pc, run, out1>>
    /\ UNCHANGED <<ruleVars, intersectVars>>
    /\ UNCHANGED libVars

\* linestrings[i] is present: take it, compute, write back, clear the merged slots.
ProcessSlot ==
    /\ pc = "pass" /\ i <= Len(linestrings)
    /\ linestrings[i] # None
    /\ LET linestring_ref == linestrings[i]
           taken == [linestrings EXCEPT ![i] = None]
       IN  \E ord \in Orders(intersected_lines(taken, linestring_ref)) :
           \E computed \in { compute_linestring(taken, linestring_ref, ord) } :
             LET removed == { computed.to_remove[n] : n \in 1..Len(computed.to_remove) }
             IN  /\ linestrings' = [j \in 1..Len(linestrings) |->
                                      IF j = i THEN WriteBack(computed.result, linestring_ref)
                                      ELSE IF j \in removed THEN None
                                      ELSE linestrings[j]]
                 /\ joins' = computed.joins
    /\ i' = i + 1
    /\ UNCHANGED <<xs, prev_count, pc, run, out1>>
    /\ UNCHANGED <<ruleVars, intersectVars>>
    /\ UNCHANGED libVars

\* End of a pass with prev_count # count: another pass.
NextPass ==
    /\ pc = "pass" /\ i > Len(linestrings)
    /\ ~ Converged(prev_count, Count(linestrings))
    /\ prev_count' = Count(linestrings)
    /\ i' = 1
    /\ joins' = {}
    /\ UNCHANGED <<xs, linestrings, pc, run, out1>>
    /\ UNCHANGED <<ruleVars, intersectVars>>
    /\ UNCHANGED libVars

\* End of a pass with prev_count = count: return the present linestrings.
Return ==
    /\ pc = "pass" /\ i > Len(linestrings)
    /\ Converged(prev_count, Count(linestrings))
    /\ pc' = "done"
    /\ linestrings' = Compact(linestrings)
    /\ out1' = IF run = 1 THEN Compact(linestrings) ELSE out1
    /\ joins' = {}
    /\ UNCHANGED <<xs, i, prev_count, run>>
    /\ UNCHANGED <<ruleVars, intersectVars>>
    /\ UNCHANGED libVars

\* merge_linestrings is called again on the Vec it returned.
CallAgain ==
    /\ pc = "done" /\ run = 1
    /\ run' = 2
    /\ linestrings' = out1
    /\ i' = 1
    /\ prev_count' = 0
    /\ pc' = "pass"
    /\ joins' = {}
    /\ UNCHANGED <<xs, out1>>
    /\ UNCHANGED <<ruleVars, intersectVars>>
    /\ UNCHANGED libVars

NextMerge == SkipSlot \/ ProcessSlot \/ NextPass \/ Return \/ CallAgain

SpecMerge == InitMerge /\ [][NextMerge]_vars

----------------------------------------------------------------------------
(* Properties of merge_linestrings.                                        *)

Range(s) == { s[n] : n \in 1..Len(s) }
Ends(ls) == { ls[1], ls[Len(ls)] }
Touchers(ls_vec, p) == { j \in 1..Len(ls_vec) : ls_vec[j] # None /\ LsIntersectsCoord(ls_vec[j], p) }

JoinsOnlyAtUniquelyTouched ==
    \A j \in joins : j.touching = 1

RECURSIVE ChainCoords(_)
ChainCoords(l) ==
    IF l = <<>> THEN <<>>
    ELSE IF Len(l) = 1 THEN l[1]
    ELSE l[1] \o Tail(ChainCoords(Tail(l)))

\* A path is simple and open: consecutive segments share only their common
\* coordinate, other segments share nothing.
IsSimplePath(c) ==
    \A k, m \in 1..(Len(c) - 1) :
        k < m =>
            IF m = k + 1
            THEN \/ Orient(c[k], c[k + 1], c[k + 2]) # 0
                 \/ ~ (CoordOnLine(c[k + 2], c[k], c[k + 1]) \/ CoordOnLine(c[k], c[k + 1], c[k + 2]))
            ELSE ~ LineIntersectsLine(c[k], c[k + 1], c[m], c[m + 1])

\* The list is a simple open chain given in chain order.
IsChain(l) ==
    /\ Len(l) >= 2
    /\ \A k \in 1..(Len(l) - 1) : l[k][Len(l[k])] = l[k + 1][1]
    /\ IsSimplePath(ChainCoords(l))

\* C4: a simple open chain of n >= 2 linestrings given in chain order is
\* returned as the one linestring of the chain's coordinates in order, each
\* shared coordinate once.
ChainMergedInOrder ==
    (pc = "done" /\ run = 1 /\ IsChain(xs)) => linestrings = << ChainCoords(xs) >>

ChainMergedInOrderWitness ==
    pc = "done" /\ run = 1 /\ IsChain(xs) /\ Len(xs) = 3

\* Input linestring k is intersected by no other input linestring.
Isolated(k) == \A j \in 1..Len(xs) : j # k => ~ LsIntersectsLs(xs[j], xs[k])

\* C5: an input linestring that no other input linestring intersects stays
\* in its slot unchanged and is returned unchanged; when no two input
\* linestrings intersect the returned list is the input list.
IsolatedUnchanged ==
    run = 1 =>
        /\ \A k \in 1..Len(xs) :
              Isolated(k) => IF pc = "pass" THEN linestrings[k] = xs[k]
                             ELSE xs[k] \in Range(linestrings)
        /\ (pc = "done" /\ \A k \in 1..Len(xs) : Isolated(k)) => linestrings = xs

IsolatedUnchangedWitness ==
    /\ pc = "done" /\ run = 1
    /\ \E k \in 1..Len(xs) : Isolated(k)
    /\ Len(linestrings) < Len(xs)

----------------------------------------------------------------------------
(* rule/must_not_overlap.rs: the spatial-index joins.                      *)

\* The largest number of geometries handed to an overlap rule (self and other together).
MaxGeoms == 3

\* TopologyResult: Valid, or Errors(Vec<TopologyError>); Pending before the return.
Pending == [tag |-> "Pending", errors |-> <<>>]
Valid == [tag |-> "Valid", errors |-> <<>>]
Errors(errs) == [tag |-> "Errors", errors |-> errs]
\* A bucket that loses its geometries.
TopologyErrorEmptied(k, g) == [kind |-> k, geometries |-> <<>>]

\* TopologyError::<kind>(Vec<geometry>)
TopologyError(k, g) == [kind |-> k, geometries |-> g]

SeqsUpTo(S, n) == UNION { [1..k -> S] : k \in 0..n }

\* The points the point rules are run on.
PointPool == { <<0, 0>>, <<2, 0>> }

\* The polygons the polygon rules are run on, as sets of unit cells <<x, y>>
\* (the cell covers [x, x+1] x [y, y+1]): two adjacent unit squares, the
\* rectangle covering both, an L along the left and top of a 3 x 3 block,
\* and the square in the corner of that block the L leaves free.
PolygonPool ==
    { { <<0, 0>> }, { <<1, 0>> }, { <<0, 0>>, <<1, 0>> }, { <<2, 0>> },
      { <<0, 0>>, <<0, 1>>, <<0, 2>>, <<1, 2>>, <<2, 2>> } }

SetMin(S) == CHOOSE m \in S : \A n \in S : m <= n
SetMax(S) == CHOOSE m \in S : \A n \in S : m >= n

\* rstar envelopes (axis-aligned bounding boxes).
EnvOfPoint(p) == [x1 |-> p[1], y1 |-> p[2], x2 |-> p[1], y2 |-> p[2]]
EnvOfLine(l) ==
    [x1 |-> Min(l[1][1], l[2][1]), y1 |-> Min(l[1][2], l[2][2]),
     x2 |-> Max(l[1][1], l[2][1]), y2 |-> Max(l[1][2], l[2][2])]
EnvOfPolygon(c) ==
    [x1 |-> SetMin({ d[1] : d \in c }), y1 |-> SetMin({ d[2] : d \in c }),
     x2 |-> SetMax({ d[1] : d \in c }) + 1, y2 |-> SetMax({ d[2] : d \in c }) + 1]
Envelope(k, g) ==
    IF k = "Point" THEN EnvOfPoint(g)
    ELSE IF k = "Polygon" THEN EnvOfPolygon(g) ELSE EnvOfLine(g)
EnvIntersects(e, f) ==
    e.x1 <= f.x2 /\ f.x1 <= e.x2 /\ e.y1 <= f.y2 /\ f.y1 <= e.y2

\* RTree::intersection_candidates_with_other_tree: every pair (a, b) of an item
\* of the tree and an item of the other tree whose envelopes intersect.
intersection_candidates_with_other_tree(k, tree, other) ==
    { c \in (1..Len(tree)) \X (1..Len(other)) :
        EnvIntersects(Envelope(k, tree[c[1]]), Envelope(k, other[c[2]])) }

\* Polygon intersects Polygon: the closed regions share a point.
PolygonIntersects(a, b) ==
    \E c \in a, d \in b : c[1] - d[1] \in -1..1 /\ c[2] - d[2] \in -1..1

\* BooleanOps::intersection: the MultiPolygon of the common area (every
\* intersection of two polygons of PolygonPool is empty or one polygon).
PolygonIntersection(a, b) == IF a \cap b = {} THEN <<>> ELSE << a \cap b >>

\* Line intersects Line, in place of contains.
LineTouchesLine(l, o) == LineIntersectsLine(l[1], l[2], o[1], o[2])

\* Line contains Line.
LineContainsLine(l, o) ==
    IF o[1] = o[2]
    THEN IF l[1] = l[2] THEN o[1] = l[1]
         ELSE o[1] # l[1] /\ o[1] # l[2] /\ CoordOnLine(o[1], l[1], l[2])
    ELSE CoordOnLine(o[1], l[1], l[2]) /\ CoordOnLine(o[2], l[1], l[2])

\* explode_linestrings: the segments of the linestrings.
RECURSIVE explode_linestrings(_)
explode_linestrings(ls_vec) ==
    IF ls_vec = <<>> THEN <<>>
    ELSE [k \in 1..(Len(Head(ls_vec)) - 1) |-> << Head(ls_vec)[k], Head(ls_vec)[k + 1] >>]
         \o explode_linestrings(Tail(ls_vec))

\* The items the rule indexes.
Items(k, g) == IF k = "LineString" THEN explode_linestrings(g) ELSE g

\* The polygon guard without the test that the two items differ.
PolygonPairAcceptedSelf(a, b, addrs, polys) ==
    /\ <<b, a>> \notin addrs
    /\ PolygonIntersects(polys[a], polys[b])

\* The polygon guard without the look-up in `addresses`.
PolygonPairAcceptedTwice(a, b, addrs, polys) ==
    /\ a # b
    /\ PolygonIntersects(polys[a], polys[b])

\* The guard of the polygon closure of must_not_overlap (lines 36-38).
PolygonPairAccepted(a, b, addrs, polys) ==
    /\ a # b
    /\ <<b, a>> \notin addrs
    /\ PolygonIntersects(polys[a], polys[b])

\* The guard of the point closure of must_not_overlap (lines 133-135).
PointPairAccepted(a, b, addrs, point_vec) ==
    /\ a # b
    /\ <<b, a>> \notin addrs
    /\ point_vec[a] = point_vec[b]

InitOverlap ==
    /\ rule = "must_not_overlap"
    /\ kind \in {"Point", "Polygon"}
    /\ geoms \in SeqsUpTo(IF kind = "Point" THEN PointPool ELSE PolygonPool, MaxGeoms)
    /\ others = <<>>
    /\ candidates = intersection_candidates_with_other_tree(kind, geoms, geoms)
    /\ addresses = {}
    /\ geometry_errors = <<>>
    /\ emitted = <<>>
    /\ topology_result = Pending
    /\ MergeIdle
    /\ IntersectIdle
    /\ LibIdle

\* Vec<Polygon>::must_not_overlap: the join yields a pair, the closure filters it.
FilterPolygonPair ==
    /\ rule = "must_not_overlap" /\ kind = "Polygon" /\ topology_result = Pending
    /\ \E c \in candidates :
         LET intersection == PolygonIntersection(geoms[c[1]], geoms[c[2]])
         IN  /\ candidates' = candidates \ {c}
             /\ IF PolygonPairAccepted(c[1], c[2], addresses, geoms)
                THEN /\ addresses' = addresses \cup {c}
                     /\ geometry_errors' = geometry_errors \o intersection
                     /\ emitted' = emitted \o [n \in 1..Len(intersection) |-> c]
                ELSE UNCHANGED <<addresses, geometry_errors, emitted>>
    /\ UNCHANGED <<rule, kind, geoms, others, topology_result>>
    /\ UNCHANGED <<mergeVars, intersectVars>>
    /\ UNCHANGED libVars

\* Vec<Point>::must_not_overlap: the join yields a pair, the closure filters it.
FilterPointPair ==
    /\ rule = "must_not_overlap" /\ kind = "Point" /\ topology_result = Pending
    /\ \E c \in candidates :
         /\ candidates' = candidates \ {c}
         /\ IF PointPairAccepted(c[1], c[2], addresses, geoms)
            THEN /\ addresses' = addresses \cup {c}
                 /\ geometry_errors' = Append(geometry_errors, geoms[c[1]])
                 /\ emitted' = Append(emitted, c)
            ELSE UNCHANGED <<addresses, geometry_errors, emitted>>
    /\ UNCHANGED <<rule, kind, geoms, others, topology_result>>
    /\ UNCHANGED <<mergeVars, intersectVars>>
    /\ UNCHANGED libVars

\* The join is exhausted: Valid, or Errors with one bucket of the input's kind.
Collect ==
    /\ rule \in {"must_not_overlap", "must_not_overlap_with"}
    /\ topology_result = Pending /\ candidates = {}
    /\ topology_result' = IF geometry_errors = <<>> THEN Valid
                 ELSE Errors(<< TopologyError(kind, geometry_errors) >>)
    /\ UNCHANGED <<rule, kind, geoms, others, candidates, addresses, geometry_errors, emitted>>
    /\ UNCHANGED <<mergeVars, intersectVars>>
    /\ UNCHANGED libVars

NextOverlap == FilterPolygonPair \/ FilterPointPair \/ Collect

SpecOverlap == InitOverlap /\ [][NextOverlap]_vars

----------------------------------------------------------------------------
(* must_not_overlap_with                                                   *)

\* The two input Vecs of must_not_overlap_with: a list cut in two.
InitOverlapWith ==
    /\ rule = "must_not_overlap_with"
    /\ kind \in {"Point", "Polygon", "LineString"}
    /\ \E l \in (IF kind = "Point" THEN SeqsUpTo(PointPool, MaxGeoms)
                 ELSE IF kind = "Polygon" THEN SeqsUpTo(PolygonPool, MaxGeoms)
                 ELSE InputLists(MaxGeoms)) :
         \E k \in 0..Len(l) :
            /\ geoms = SubSeq(l, 1, k)
            /\ others = SubSeq(l, k + 1, Len(l))
    /\ candidates = intersection_candidates_with_other_tree(
                        kind, Items(kind, geoms), Items(kind, others))
    /\ addresses = {}
    /\ geometry_errors = <<>>
    /\ emitted = <<>>
    /\ topology_result = Pending
    /\ MergeIdle
    /\ IntersectIdle
    /\ LibIdle

\* Vec<Polygon>::must_not_overlap_with (lines 62-70).
FilterPolygonWith ==
    /\ rule = "must_not_overlap_with" /\ kind = "Polygon" /\ topology_result = Pending
    /\ \E c \in candidates :
         LET intersection == PolygonIntersection(geoms[c[1]], others[c[2]])
         IN  /\ candidates' = candidates \ {c}
             /\ IF PolygonIntersects(geoms[c[1]], others[c[2]])
                THEN /\ geometry_errors' = geometry_errors \o intersection
                     /\ emitted' = emitted \o [n \in 1..Len(intersection) |-> c]
                ELSE UNCHANGED <<geometry_errors, emitted>>
    /\ UNCHANGED <<rule, kind, geoms, others, addresses, topology_result>>
    /\ UNCHANGED <<mergeVars, intersectVars>>
    /\ UNCHANGED libVars

\* Vec<LineString>::must_not_overlap_with (lines 102-107).
FilterLineWith ==
    /\ rule = "must_not_overlap_with" /\ kind = "LineString" /\ topology_result = Pending
    /\ \E c \in candidates :
         LET line == explode_linestrings(geoms)[c[1]]
             other == explode_linestrings(others)[c[2]]
         IN  /\ candidates' = candidates \ {c}
             /\ IF LineContainsLine(line, other)
                THEN /\ geometry_errors' = Append(geometry_errors, other)
                     /\ emitted' = Append(emitted, c)
                ELSE UNCHANGED <<geometry_errors, emitted>>
    /\ UNCHANGED <<rule, kind, geoms, others, addresses, topology_result>>
    /\ UNCHANGED <<mergeVars, intersectVars>>
    /\ UNCHANGED libVars

\* Vec<Point>::must_not_overlap_with (lines 158-163).
FilterPointWith ==
    /\ rule = "must_not_overlap_with" /\ kind = "Point" /\ topology_result = Pending
    /\ \E c \in candidates :
         /\ candidates' = candidates \ {c}
         /\ IF geoms[c[1]] = others[c[2]]
            THEN /\ geometry_errors' = Append(geometry_errors, geoms[c[1]])
                 /\ emitted' = Append(emitted, c)
            ELSE UNCHANGED <<geometry_errors, emitted>>
    /\ UNCHANGED <<rule, kind, geoms, others, addresses, topology_result>>
    /\ UNCHANGED <<mergeVars, intersectVars>>
    /\ UNCHANGED libVars

NextOverlapWith == FilterPolygonWith \/ FilterLineWith \/ FilterPointWith \/ Collect

SpecOverlapWith == InitOverlapWith /\ [][NextOverlapWith]_vars

----------------------------------------------------------------------------
(* util/geometry.rs and rule/must_not_intersect.rs                         *)

\* The largest number of linestrings handed to must_not_intersect.
MaxIntersectLines == 2
\* The largest number of coordinates of one of them.
MaxIntersectCoords == 4
\* The largest number of coordinates of all of them together.
MaxIntersectTotal == 7

\* The coordinates of must_not_intersect's inputs: the corners and the centre
\* of a square, so that the diagonals cross properly at a pool coordinate.
CrossPts == { <<0, 0>>, <<2, 0>>, <<2, 2>>, <<0, 2>>, <<1, 1>> }

\* SweepPoint's total order: x ascending, ties broken by y ascending.
SweepLess(p, q) == p[1] < q[1] \/ (p[1] = q[1] /\ p[2] < q[2])

\* linestring_inner_points: the coordinates 1..len-1 of every linestring, in order.
RECURSIVE linestring_inner_points(_)
linestring_inner_points(ls_vec) ==
    IF ls_vec = <<>> THEN <<>>
    ELSE SubSeq(Head(ls_vec), 2, Len(Head(ls_vec)) - 1) \o linestring_inner_points(Tail(ls_vec))

\* Vec::sort under SweepPoint's order.
RECURSIVE Insert(_, _)
Insert(sorted, p) ==
    IF sorted = <<>> THEN <<p>>
    ELSE IF SweepLess(p, Head(sorted)) THEN <<p>> \o sorted
         ELSE <<Head(sorted)>> \o Insert(Tail(sorted), p)
RECURSIVE Sort(_)
Sort(v) == IF v = <<>> THEN <<>> ELSE Insert(Sort(Tail(v)), Head(v))

\* Itertools::dedup_with_count: one (size, item) per run of equal consecutive items.
RECURSIVE dedup_with_count(_)
dedup_with_count(v) ==
    IF v = <<>> THEN <<>>
    ELSE LET rest == dedup_with_count(Tail(v))
         IN  IF rest # <<>> /\ Head(rest)[2] = Head(v)
             THEN << <<Head(rest)[1] + 1, Head(v)>> >> \o Tail(rest)
             ELSE << <<1, Head(v)>> >> \o rest

\* The closure keeping every inner point.
KeepInnerAny(size) == size > 0

\* The filter_map closure of `subset` (lines 22-30): keeps an item of size > 1.
KeepInner(size) == size > 1

\* subset: the items dedup_with_count reports with a size > 1.
RECURSIVE SubsetOf(_)
SubsetOf(counted) ==
    IF counted = <<>> THEN <<>>
    ELSE IF KeepInner(Head(counted)[1])
         THEN <<Head(counted)[2]>> \o SubsetOf(Tail(counted))
         ELSE SubsetOf(Tail(counted))

\* slice::binary_search(..).is_ok() on v[lo..hi] (v sorted by SweepLess).
RECURSIVE binary_search(_, _, _, _)
binary_search(v, p, lo, hi) ==
    IF lo > hi THEN FALSE
    ELSE LET mid == (lo + hi) \div 2
         IN  IF v[mid] = p THEN TRUE
             ELSE IF SweepLess(v[mid], p) THEN binary_search(v, p, mid + 1, hi)
             ELSE binary_search(v, p, lo, mid - 1)

\* line_intersection of two segments l, o that intersect.
Collinear(l, o) == Orient(l[1], l[2], o[1]) = 0 /\ Orient(l[1], l[2], o[2]) = 0
\* the ends of l and o that lie on both segments
Shared(l, o) ==
    { e \in {l[1], l[2], o[1], o[2]} :
        CoordOnLine(e, l[1], l[2]) /\ CoordOnLine(e, o[1], o[2]) }
\* Collinear { intersection }: the two segments share a segment of positive length.
IsCollinearOverlap(l, o) == Collinear(l, o) /\ Cardinality(Shared(l, o)) >= 2
CollinearIntersection(l, o) ==
    LET S == Shared(l, o)
        lo == CHOOSE e \in S : \A f \in S : e = f \/ SweepLess(e, f)
        hi == CHOOSE e \in S : \A f \in S : e = f \/ SweepLess(f, e)
    IN  <<lo, hi>>
\* SinglePoint { intersection, is_proper }: proper iff the point is an end of neither.
SinglePoint(l, o) ==
    CHOOSE p \in (0..2) \X (0..2) : CoordOnLine(p, l[1], l[2]) /\ CoordOnLine(p, o[1], o[2])
IsProper(l, o) == SinglePoint(l, o) \notin {l[1], l[2], o[1], o[2]}

\* sweep::Intersections: the pairs of distinct segments that intersect.
Crossings(segs) ==
    { c \in (1..Len(segs)) \X (1..Len(segs)) :
        c[1] < c[2] /\ LineIntersectsLine(segs[c[1]][1], segs[c[1]][2], segs[c[2]][1], segs[c[2]][2]) }

RECURSIVE SetToSortedSeq(_)
SetToSortedSeq(S) ==
    IF S = {} THEN <<>>
    ELSE LET m == CHOOSE e \in S : \A f \in S : e = f \/ SweepLess(e, f)
         IN  <<m>> \o SetToSortedSeq(S \ {m})

RECURSIVE PairsToSeq(_)
PairsToSeq(S) ==
    IF S = {} THEN <<>>
    ELSE LET m == CHOOSE e \in S : \A f \in S :
                    e = f \/ e[1] < f[1] \/ (e[1] = f[1] /\ e[2] < f[2])
         IN  <<m>> \o PairsToSeq(S \ {m})

\* intersections: the collinear overlaps (a Vec), and the sets of proper and
\* of improper single points.
intersections(segs) ==
    LET X == Crossings(segs)
        col == { c \in X : IsCollinearOverlap(segs[c[1]], segs[c[2]]) }
        pts == X \ col
        colseq == PairsToSeq(col)
    IN  [lines |-> [n \in 1..Len(colseq) |->
                        CollinearIntersection(segs[colseq[n][1]], segs[colseq[n][2]])],
         proper |-> { SinglePoint(segs[c[1]], segs[c[2]]) :
                        c \in { d \in pts : IsProper(segs[d[1]], segs[d[2]]) } },
         improper |-> { SinglePoint(segs[c[1]], segs[c[2]]) :
                        c \in { d \in pts : ~ IsProper(segs[d[1]], segs[d[2]]) } }]

CrossLineStrings ==
    UNION { { s \in [1..n -> CrossPts] : \A k \in 1..(n - 1) : s[k] # s[k + 1] }
            : n \in 2..MaxIntersectCoords }

RECURSIVE TotalCoords(_)
TotalCoords(ls_vec) ==
    IF ls_vec = <<>> THEN 0 ELSE Len(Head(ls_vec)) + TotalCoords(Tail(ls_vec))

InitIntersect ==
    /\ rule = "must_not_intersect"
    /\ kind = "LineString"
    /\ geoms \in { g \in SeqsUpTo(CrossLineStrings, MaxIntersectLines) :
                     TotalCoords(g) <= MaxIntersectTotal }
    /\ others = <<>> /\ candidates = {} /\ addresses = {}
    /\ geometry_errors = <<>> /\ emitted = <<>>
    /\ topology_result = Pending
    /\ step = "sort"
    /\ endpoints = <<>> /\ subset = <<>>
    /\ kernel = [lines |-> <<>>, proper |-> {}, improper |-> {}]
    /\ points = <<>>
    /\ MergeIdle
    /\ LibIdle

\* lines 16-17: endpoints = linestring_inner_points(self); endpoints.sort()
SortInner ==
    /\ rule = "must_not_intersect" /\ step = "sort"
    /\ endpoints' = Sort(linestring_inner_points(geoms))
    /\ step' = "subset"
    /\ UNCHANGED <<subset, kernel, points, ruleVars, mergeVars>>
    /\ UNCHANGED libVars

\* lines 19-31: subset = the inner points that occur more than once
SelectSubset ==
    /\ rule = "must_not_intersect" /\ step = "subset"
    /\ subset' = SubsetOf(dedup_with_count(endpoints))
    /\ step' = "kernel"
    /\ UNCHANGED <<endpoints, kernel, points, ruleVars, mergeVars>>
    /\ UNCHANGED libVars

\* line 32: the sweep over the exploded linestrings
RunKernel ==
    /\ rule = "must_not_intersect" /\ step = "kernel"
    /\ kernel' = intersections(explode_linestrings(geoms))
    /\ step' = "points"
    /\ UNCHANGED <<endpoints, subset, points, ruleVars, mergeVars>>
    /\ UNCHANGED libVars

\* lines 33-39: the improper points found in subset, extended with the proper points
SelectPoints ==
    /\ rule = "must_not_intersect" /\ step = "points"
    /\ points' = SetToSortedSeq(
                    { p \in kernel.improper : binary_search(subset, p, 1, Len(subset)) }
                    \cup kernel.proper)
    /\ step' = "return"
    /\ UNCHANGED <<endpoints, subset, kernel, ruleVars, mergeVars>>
    /\ UNCHANGED libVars

\* lines 40-53: the buckets and the TopologyResult
ReturnIntersect ==
    /\ rule = "must_not_intersect" /\ step = "return"
    /\ geometry_errors' =
          (IF points # <<>> THEN << TopologyError("Point", points) >> ELSE <<>>)
          \o (IF kernel.lines # <<>> THEN << TopologyError("LineString", kernel.lines) >> ELSE <<>>)
    /\ topology_result' = IF geometry_errors' = <<>> THEN Valid ELSE Errors(geometry_errors')
    /\ step' = "done"
    /\ UNCHANGED <<endpoints, subset, kernel, points, mergeVars>>
    /\ UNCHANGED <<rule, kind, geoms, others, candidates, addresses, emitted>>
    /\ UNCHANGED libVars

\* The segments handed to intersections, and the coordinates it returned.
KernelSegments == explode_linestrings(geoms)
KernelReturned == step \in { "points", "return", "done" } /\ rule = "must_not_intersect"
HasEndpointAt(p) ==
    \E n \in 1..Len(KernelSegments) : p \in { KernelSegments[n][1], KernelSegments[n][2] }

\* C22: each coordinate returned by intersections lies in exactly one of the
\* proper and the improper points; it is improper exactly when at least one
\* input segment has it as an endpoint, and is then absent from the proper
\* points even if two segments also cross there in their interiors.
PointsClassifiedOnce ==
    KernelReturned =>
        /\ kernel.proper \cap kernel.improper = {}
        /\ \A p \in kernel.proper \cup kernel.improper :
               (p \in kernel.improper) <=> HasEndpointAt(p)

\* C23: no output of intersections holds a duplicate: the proper and improper
\* points are sets, and no overlap segment occurs twice among the collinear
\* overlaps, also when several pairs of segments produce the same overlap.
NoDuplicateOverlaps ==
    KernelReturned =>
        \A a, b \in DOMAIN kernel.lines : a # b => kernel.lines[a] # kernel.lines[b]

NextIntersect == SortInner \/ SelectSubset \/ RunKernel \/ SelectPoints \/ ReturnIntersect

SpecIntersect == InitIntersect /\ [][NextIntersect]_vars

----------------------------------------------------------------------------
(* Properties of the overlap rules and of must_not_intersect.              *)

Returned == topology_result.tag # "Pending"

\* The geometries of the bucket of kind k ("the k errors"), <<>> when there is none.
Bucket(k) ==
    LET hits == { n \in 1..Len(topology_result.errors) : topology_result.errors[n].kind = k }
    IN  IF hits = {} THEN <<>> ELSE topology_result.errors[SetMin(hits)].geometries

\* C6: must_not_overlap on points reports exactly the coordinates that two
\* or more input points have, each of them once.
PointOverlapsOnce ==
    (rule = "must_not_overlap" /\ kind = "Point" /\ Returned) =>
        /\ Range(Bucket("Point")) =
              { geoms[a] : a \in { n \in 1..Len(geoms) :
                                     \E m \in 1..Len(geoms) : m # n /\ geoms[m] = geoms[n] } }
        /\ \A n, m \in 1..Len(Bucket("Point")) :
              n # m => Bucket("Point")[n] # Bucket("Point")[m]

\* C7: must_not_overlap on polygons is Valid iff no two distinct input
\* polygons share area; otherwise it is Errors with one non-empty Polygon bucket.
PolygonValidIffNoSharedArea ==
    (rule = "must_not_overlap" /\ kind = "Polygon" /\ Returned) =>
        /\ topology_result.tag = "Valid" <=>
              \A a, b \in 1..Len(geoms) : a # b => geoms[a] \cap geoms[b] = {}
        /\ topology_result.tag = "Errors" =>
              /\ Len(topology_result.errors) = 1
              /\ topology_result.errors[1].kind = "Polygon"
              /\ topology_result.errors[1].geometries # <<>>

PolygonValidIffNoSharedAreaWitness ==
    /\ rule = "must_not_overlap" /\ kind = "Polygon"
    /\ topology_result.tag = "Errors" /\ Len(geoms) = 3
    /\ \E a, b \in 1..Len(geoms) :
          a # b /\ PolygonIntersects(geoms[a], geoms[b]) /\ geoms[a] \cap geoms[b] = {}

\* C8: the polygon join puts the intersection of an unordered pair of distinct
\* polygons in the result at most once, never that of a polygon with itself,
\* and never an empty intersection.
PolygonPairAtMostOnce ==
    (rule = "must_not_overlap" /\ kind = "Polygon") =>
        /\ \A n, m \in 1..Len(emitted) :
              n # m => {emitted[n][1], emitted[n][2]} # {emitted[m][1], emitted[m][2]}
        /\ \A n \in 1..Len(emitted) : emitted[n][1] # emitted[n][2]
        /\ \A n \in 1..Len(geometry_errors) : geometry_errors[n] # {}

PolygonPairAtMostOnceWitness ==
    /\ rule = "must_not_overlap" /\ kind = "Polygon" /\ Returned
    /\ Len(emitted) >= 2

\* Two items of a must_not_overlap_with input overlap, in the sense of their kind.
SegsOverlap(l, o) == Collinear(l, o) /\ Cardinality(Shared(l, o)) >= 2
Overlap(k, g, h) ==
    IF k = "Point" THEN g = h
    ELSE IF k = "Polygon" THEN g \cap h # {}
    ELSE SegsOverlap(g, h)

\* C9: every error of must_not_overlap_with is the overlap of an item of self
\* with an item of other, and the result is Valid when no such pair overlaps,
\* whatever overlaps self has with itself.
OverlapWithCrossPairsOnly ==
    rule = "must_not_overlap_with" =>
        LET selfs == Items(kind, geoms)
            oths == Items(kind, others)
        IN  /\ Len(emitted) = Len(geometry_errors)
            /\ \A n \in 1..Len(emitted) :
                  /\ emitted[n][1] \in 1..Len(selfs) /\ emitted[n][2] \in 1..Len(oths)
                  /\ Overlap(kind, selfs[emitted[n][1]], oths[emitted[n][2]])
                  /\ geometry_errors[n] =
                        IF kind = "Polygon" THEN selfs[emitted[n][1]] \cap oths[emitted[n][2]]
                        ELSE oths[emitted[n][2]]
            /\ (Returned /\ ~ \E a \in 1..Len(selfs), b \in 1..Len(oths) :
                                  Overlap(kind, selfs[a], oths[b]))
                  => topology_result = Valid
            /\ (Returned /\ topology_result.tag = "Errors") =>
                  topology_result.errors = << TopologyError(kind, geometry_errors) >>

OverlapWithCrossPairsOnlyWitness ==
    /\ rule = "must_not_overlap_with" /\ topology_result = Valid
    /\ others # <<>>
    /\ \E a, b \in 1..Len(Items(kind, geoms)) :
          a # b /\ Overlap(kind, Items(kind, geoms)[a], Items(kind, geoms)[b])

\* The number of times p occurs among the inner coordinates of the input linestrings.
InnerMultiplicity(p) ==
    Cardinality({ c \in (1..Len(geoms)) \X (1..MaxIntersectCoords) :
                    c[2] > 1 /\ c[2] < Len(geoms[c[1]]) /\ geoms[c[1]][c[2]] = p })

\* C10: the Point errors of must_not_intersect are the kernel's proper points
\* and those improper points that occur at least twice among the inner coordinates.
PointErrorsOfIntersect ==
    (rule = "must_not_intersect" /\ step = "done") =>
        Range(Bucket("Point")) =
            kernel.proper \cup { p \in kernel.improper : InnerMultiplicity(p) >= 2 }

PointErrorsOfIntersectWitness ==
    /\ rule = "must_not_intersect" /\ step = "done"
    /\ \E p \in kernel.improper : InnerMultiplicity(p) >= 2
    /\ \E q \in kernel.improper : InnerMultiplicity(q) < 2
    /\ kernel.proper # {}

----------------------------------------------------------------------------
(* must_not_intersect and the ends of the linestrings.                     *)

\* The segments of the input linestrings, each with the index of its linestring.
OwnedSegs ==
    { c \in (1..Len(geoms)) \X (1..MaxIntersectCoords) : c[2] < Len(geoms[c[1]]) }
SegOf(c) == << geoms[c[1]][c[2]], geoms[c[1]][c[2] + 1] >>

\* The coordinates at which a segment of one input linestring meets a segment
\* of another input linestring in a single point.
MeetingPoints ==
    LET meets == { q \in OwnedSegs \X OwnedSegs :
                     /\ q[1][1] # q[2][1]
                     /\ LineIntersectsLine(SegOf(q[1])[1], SegOf(q[1])[2],
                                           SegOf(q[2])[1], SegOf(q[2])[2])
                     /\ ~ IsCollinearOverlap(SegOf(q[1]), SegOf(q[2])) }
    IN  { SinglePoint(SegOf(q[1]), SegOf(q[2])) : q \in meets }

\* The number of first or last coordinates of input linestrings equal to p.
EndpointIncidence(p) ==
    Cardinality({ c \in (1..Len(geoms)) \X {"first", "last"} :
                    p = IF c[2] = "first" THEN geoms[c[1]][1]
                        ELSE geoms[c[1]][Len(geoms[c[1]])] })

\* C11: a coordinate where segments of two distinct linestrings meet in a
\* single point is left out of the Point errors only when at least two ends
\* of linestrings lie on it; every other one is reported.
MeetingPointsReported ==
    (rule = "must_not_intersect" /\ step = "done") =>
        \A p \in MeetingPoints :
            EndpointIncidence(p) < 2 => p \in Range(Bucket("Point"))

----------------------------------------------------------------------------
(* rule/must_not_have_dangles.rs                                           *)

\* The largest number of coordinates of all linestrings handed to
\* must_not_have_dangles together.
MaxDangleTotal == 6

\* linestring_endpoints: the first and the last coordinate of every linestring.
RECURSIVE linestring_endpoints(_)
linestring_endpoints(ls_vec) ==
    IF ls_vec = <<>> THEN <<>>
    ELSE << Head(ls_vec)[1], Head(ls_vec)[Len(Head(ls_vec))] >>
         \o linestring_endpoints(Tail(ls_vec))

\* An endpoint is kept although it is an improper intersection.
DangleKeptAlways(point, improper) == TRUE

\* The filter_map closure (lines 22-25): an endpoint that is no improper
\* intersection is kept.
DangleKept(point, improper) == point \notin improper

\* endpoints.into_iter().filter_map(..).collect_vec()
RECURSIVE DangleFilter(_, _)
DangleFilter(v, improper) ==
    IF v = <<>> THEN <<>>
    ELSE IF DangleKept(Head(v), improper)
         THEN <<Head(v)>> \o DangleFilter(Tail(v), improper)
         ELSE DangleFilter(Tail(v), improper)

InitDangles ==
    /\ rule = "must_not_have_dangles"
    /\ kind = "LineString"
    /\ geoms \in { g \in SeqsUpTo(CrossLineStrings, MaxIntersectLines) :
                     TotalCoords(g) <= MaxDangleTotal }
    /\ others = <<>> /\ candidates = {} /\ addresses = {}
    /\ geometry_errors = <<>> /\ emitted = <<>>
    /\ topology_result = Pending
    /\ step = "endpoints"
    /\ endpoints = <<>> /\ subset = <<>>
    /\ kernel = [lines |-> <<>>, proper |-> {}, improper |-> {}]
    /\ points = <<>>
    /\ MergeIdle
    /\ LibIdle

\* line 16: endpoints = linestring_endpoints(self)
DanglesEndpoints ==
    /\ rule = "must_not_have_dangles" /\ step = "endpoints"
    /\ endpoints' = linestring_endpoints(geoms)
    /\ step' = "kernel"
    /\ UNCHANGED <<subset, kernel, points, ruleVars, mergeVars>>
    /\ UNCHANGED libVars

\* lines 17-18: the improper points of the sweep over the exploded linestrings
DanglesKernel ==
    /\ rule = "must_not_have_dangles" /\ step = "kernel"
    /\ kernel' = intersections(explode_linestrings(geoms))
    /\ step' = "filter"
    /\ UNCHANGED <<endpoints, subset, points, ruleVars, mergeVars>>
    /\ UNCHANGED libVars

\* lines 19-27: the endpoints that are no improper intersection
DanglesFilter ==
    /\ rule = "must_not_have_dangles" /\ step = "filter"
    /\ points' = DangleFilter(endpoints, kernel.improper)
    /\ step' = "return"
    /\ UNCHANGED <<endpoints, subset, kernel, ruleVars, mergeVars>>
    /\ UNCHANGED libVars

\* lines 28-34: Valid, or Errors with one Point bucket
DanglesReturn ==
    /\ rule = "must_not_have_dangles" /\ step = "return"
    /\ geometry_errors' = points
    /\ topology_result' = IF points = <<>> THEN Valid
                          ELSE Errors(<< TopologyError("Point", points) >>)
    /\ step' = "done"
    /\ UNCHANGED <<endpoints, subset, kernel, points, mergeVars>>
    /\ UNCHANGED <<rule, kind, geoms, others, candidates, addresses, emitted>>
    /\ UNCHANGED libVars

NextDangles == DanglesEndpoints \/ DanglesKernel \/ DanglesFilter \/ DanglesReturn

SpecDangles == InitDangles /\ [][NextDangles]_vars

\* The input linestrings that have q as first or last coordinate.
EndOwners(q) == { a \in 1..Len(geoms) : q \in Ends(geoms[a]) }

\* C12: must_not_have_dangles reports q iff q is an end of exactly one input
\* linestring and no segment of another linestring passes through q; an end
\* shared by two linestrings is not reported.
DanglesAreLoneEnds ==
    (rule = "must_not_have_dangles" /\ step = "done") =>
        \A q \in CrossPts :
            q \in Range(Bucket("Point")) <=>
                /\ Cardinality(EndOwners(q)) = 1
                /\ \A b \in 1..Len(geoms) :
                      b \notin EndOwners(q) => ~ LsIntersectsCoord(geoms[b], q)

----------------------------------------------------------------------------
(* rule/must_not_have_gaps.rs                                              *)

\* The largest number of polygons handed to must_not_have_gaps.
MaxGapPolys == 2
\* The largest number of ring segments of all of them together.
MaxGapSegs == 6

\* Polygon { exterior, interiors }, the rings closed.
Polygon(ext, ints) == [exterior |-> ext, interiors |-> ints]

\* The polygons must_not_have_gaps is run on: two triangles sharing their
\* hypotenuse, a small triangle with two sides inside sides of the first, a
\* triangle apart from the others, and a triangle with a triangular hole.
GapPool ==
    { Polygon(<< <<0, 0>>, <<2, 0>>, <<0, 2>>, <<0, 0>> >>, <<>>),
      Polygon(<< <<2, 0>>, <<2, 2>>, <<0, 2>>, <<2, 0>> >>, <<>>),
      Polygon(<< <<0, 0>>, <<1, 0>>, <<0, 1>>, <<0, 0>> >>, <<>>),
      Polygon(<< <<3, 3>>, <<4, 3>>, <<3, 4>>, <<3, 3>> >>, <<>>),
      Polygon(<< <<0, 0>>, <<4, 0>>, <<0, 4>>, <<0, 0>> >>,
              << << <<1, 1>>, <<2, 1>>, <<1, 2>>, <<1, 1>> >> >>) }

\* lines 14-23: of every polygon the interior rings, then the exterior ring.
RECURSIVE Boundaries(_)
Boundaries(polys) ==
    IF polys = <<>> THEN <<>>
    ELSE Head(polys).interiors \o << Head(polys).exterior >> \o Boundaries(Tail(polys))

\* The permutations of 1..n: the orders in which the tree yields its items.
RECURSIVE Perms(_)
Perms(S) ==
    IF S = {} THEN { <<>> }
    ELSE UNION { { <<x>> \o r : r \in Perms(S \ {x}) } : x \in S }

\* lines 29-36: the number of items of the tree, among those whose envelope
\* intersects that of `line`, that `line` contains.
GapCounter(tree, line) ==
    Cardinality({ j \in 1..Len(tree) :
                    /\ EnvIntersects(EnvOfLine(line), EnvOfLine(tree[j]))
                    /\ LineContainsLine(line, tree[j]) })

\* The closure with the test `counter == 1`.
GapReportedBelowOne(counter) == counter < 1

\* The filter_map closure (lines 28-38): the line is dropped when the counter
\* reaches 2, and is a result otherwise.
GapReported(counter) == counter < 2

\* tree.iter().filter_map(..).collect(), the tree yielding its items in order ord.
RECURSIVE GapResults(_, _, _)
GapResults(tree, ord, n) ==
    IF n > Len(ord) THEN <<>>
    ELSE IF GapReported(GapCounter(tree, tree[ord[n]]))
         THEN << tree[ord[n]] >> \o GapResults(tree, ord, n + 1)
         ELSE GapResults(tree, ord, n + 1)

InitGaps ==
    /\ rule = "must_not_have_gaps"
    /\ kind = "Polygon"
    /\ geoms \in { g \in SeqsUpTo(GapPool, MaxGapPolys) :
                     Len(explode_linestrings(Boundaries(g))) <= MaxGapSegs }
    /\ others = <<>> /\ candidates = {} /\ addresses = {}
    /\ geometry_errors = <<>> /\ emitted = <<>>
    /\ topology_result = Pending
    /\ step = "scan"
    /\ endpoints = <<>> /\ subset = <<>>
    /\ kernel = [lines |-> <<>>, proper |-> {}, improper |-> {}]
    /\ points = <<>>
    /\ MergeIdle
    /\ LibIdle

\* lines 14-39: the ring segments are indexed and filtered.
GapsScan ==
    /\ rule = "must_not_have_gaps" /\ step = "scan"
    /\ \E tree \in { explode_linestrings(Boundaries(geoms)) } :
         \E ord \in Perms(1..Len(tree)) :
            geometry_errors' = GapResults(tree, ord, 1)
    /\ step' = "return"
    /\ UNCHANGED <<rule, kind, geoms, others, candidates, addresses, emitted, topology_result>>
    /\ UNCHANGED <<endpoints, subset, kernel, points, mergeVars>>
    /\ UNCHANGED libVars

\* lines 40-44: Valid, or Errors with one LineString bucket
GapsReturn ==
    /\ rule = "must_not_have_gaps" /\ step = "return"
    /\ topology_result' = IF geometry_errors = <<>> THEN Valid
                          ELSE Errors(<< TopologyError("LineString", geometry_errors) >>)
    /\ step' = "done"
    /\ UNCHANGED <<rule, kind, geoms, others, candidates, addresses, emitted, geometry_errors>>
    /\ UNCHANGED <<endpoints, subset, kernel, points, mergeVars>>
    /\ UNCHANGED libVars

NextGaps == GapsScan \/ GapsReturn

SpecGaps == InitGaps /\ [][NextGaps]_vars

\* The ring segments of the input polygons.
RingSegs == explode_linestrings(Boundaries(geoms))

\* The number of ring segments, s itself among them, contained in s.
ContainedIn(s) ==
    Cardinality({ j \in 1..Len(RingSegs) : LineContainsLine(s, RingSegs[j]) })

\* C13: must_not_have_gaps reports a ring segment s iff fewer than two ring
\* segments, s itself counted, are contained in s; it is Valid iff no segment
\* is reported.
GapsReportLoneSegments ==
    (rule = "must_not_have_gaps" /\ step = "done") =>
        /\ \A n \in 1..Len(RingSegs) :
              RingSegs[n] \in Range(Bucket("LineString")) <=> ContainedIn(RingSegs[n]) < 2
        /\ Range(Bucket("LineString")) \subseteq Range(RingSegs)
        /\ topology_result = Valid <=>
              \A n \in 1..Len(RingSegs) : ContainedIn(RingSegs[n]) >= 2

\* A side that contains a side of the other polygon is not reported, the
\* contained side is.
GapsReportLoneSegmentsWitness ==
    /\ rule = "must_not_have_gaps" /\ step = "done"
    /\ Len(geoms) = 2
    /\ \E n, m \in 1..Len(RingSegs) :
          /\ n # m /\ RingSegs[n] # RingSegs[m]
          /\ LineContainsLine(RingSegs[n], RingSegs[m])
          /\ ~ LineContainsLine(RingSegs[m], RingSegs[n])
          /\ RingSegs[m] \in Range(Bucket("LineString"))
          /\ RingSegs[n] \notin Range(Bucket("LineString"))

----------------------------------------------------------------------------
(* rule/must_be_inside.rs                                                  *)
(* Polygons are sets of unit cells as in PolygonPool; points and the       *)
(* coordinates of linestrings are in quarters of a cell side, so that a    *)
(* coordinate can lie inside a cell, on a side or on a corner.             *)

\* The cells whose closed square holds the coordinate p.
TouchCells(p) ==
    { c \in (0..3) \X (0..3) :
        /\ 4 * c[1] <= p[1] /\ p[1] <= 4 * c[1] + 4
        /\ 4 * c[2] <= p[2] /\ p[2] <= 4 * c[2] + 4 }

\* Polygon contains Point: the point lies in the interior of the polygon.
PolygonContainsPoint(poly, p) == TouchCells(p) \subseteq poly

\* The coordinates with whole numbers of quarter units on the segments of ls
\* (the segments of the linestrings used are parallel to an axis).
SamplesOf(ls) ==
    { q \in (0..16) \X (0..8) :
        \E k \in 1..(Len(ls) - 1) : CoordOnLine(q, ls[k], ls[k + 1]) }

\* Polygon contains LineString: no coordinate of ls lies outside the closed
\* polygon, and a piece of ls lies in the interior of the polygon.
PolygonContainsLs(poly, ls) ==
    /\ \A q \in SamplesOf(ls) : TouchCells(q) \cap poly # {}
    /\ \E q \in SamplesOf(ls), r \in SamplesOf(ls) :
          /\ (q[1] - r[1]) * (q[1] - r[1]) + (q[2] - r[2]) * (q[2] - r[2]) = 1
          /\ \E k \in 1..(Len(ls) - 1) :
                CoordOnLine(q, ls[k], ls[k + 1]) /\ CoordOnLine(r, ls[k], ls[k + 1])
          /\ TouchCells(q) \cap TouchCells(r) \subseteq poly

\* polygon.contains(point) / polygon.contains(linestring)
InsideContains(k, poly, g) ==
    IF k = "Point" THEN PolygonContainsPoint(poly, g) ELSE PolygonContainsLs(poly, g)

\* The envelopes of the two trees, in quarter units.
EnvOfLs(ls) ==
    [x1 |-> SetMin({ ls[n][1] : n \in 1..Len(ls) }), y1 |-> SetMin({ ls[n][2] : n \in 1..Len(ls) }),
     x2 |-> SetMax({ ls[n][1] : n \in 1..Len(ls) }), y2 |-> SetMax({ ls[n][2] : n \in 1..Len(ls) })]
EnvOfCells(poly) ==
    [x1 |-> 4 * EnvOfPolygon(poly).x1, y1 |-> 4 * EnvOfPolygon(poly).y1,
     x2 |-> 4 * EnvOfPolygon(poly).x2, y2 |-> 4 * EnvOfPolygon(poly).y2]
InsideEnvelope(k, g) == IF k = "Point" THEN EnvOfPoint(g) ELSE EnvOfLs(g)

\* The points: inside cell (0,0), on the side between cells (0,0) and (1,0),
\* on the lower side of both, inside cell (1,1), inside cell (2,0).
InsidePoints == { <<2, 2>>, <<4, 2>>, <<4, 0>>, <<6, 6>>, <<10, 2>> }

\* The linestrings: from cell (0,0) into cell (1,0), two segments inside cell
\* (0,0), along the lower side of cell (0,0), from inside cell (0,0) to its
\* upper side, from cell (0,0) to outside every polygon.
InsideLineStrings ==
    { << <<2, 2>>, <<6, 2>> >>,
      << <<1, 1>>, <<3, 1>>, <<3, 3>> >>,
      << <<0, 0>>, <<4, 0>> >>,
      << <<2, 2>>, <<2, 4>> >>,
      << <<2, 2>>, <<14, 2>> >> }

\* The largest number of polygons handed to must_be_inside.
MaxInsidePolys == 2

\* lines 18-28 (44-54): the geometries some candidate polygon contains.
inside_points(k, gs, polys) ==
    { gs[n] : n \in { m \in 1..Len(gs) :
                        \E j \in 1..Len(polys) :
                           /\ EnvIntersects(InsideEnvelope(k, gs[m]), EnvOfCells(polys[j]))
                           /\ InsideContains(k, polys[j], gs[m]) } }

\* The filter with the test not negated.
OutsideKeptInverted(g, inside) == g \in inside

\* The filter closure (line 32, 58): !inside_points.contains(&point)
OutsideKept(g, inside) == g \notin inside

\* lines 29-33 (55-59): the geometries the filter keeps, in the order ord.
RECURSIVE outside_points(_, _, _, _)
outside_points(gs, inside, ord, n) ==
    IF n > Len(ord) THEN <<>>
    ELSE IF OutsideKept(gs[ord[n]], inside)
         THEN << gs[ord[n]] >> \o outside_points(gs, inside, ord, n + 1)
         ELSE outside_points(gs, inside, ord, n + 1)

InitInside ==
    /\ rule = "must_be_inside"
    /\ kind \in {"Point", "LineString"}
    /\ geoms \in SeqsUpTo(IF kind = "Point" THEN InsidePoints ELSE InsideLineStrings, MaxGeoms)
    /\ others \in SeqsUpTo(PolygonPool, MaxInsidePolys)
    /\ candidates = {} /\ addresses = {}
    /\ geometry_errors = <<>> /\ emitted = <<>>
    /\ topology_result = Pending
    /\ step = "scan"
    /\ endpoints = <<>> /\ subset = <<>>
    /\ kernel = [lines |-> <<>>, proper |-> {}, improper |-> {}]
    /\ points = <<>>
    /\ MergeIdle
    /\ LibIdle

\* lines 16-33 (44-59): inside_points, then outside_points
InsideScan ==
    /\ rule = "must_be_inside" /\ step = "scan"
    /\ \E inside \in { inside_points(kind, geoms, others) } :
         \E ord \in Perms(1..Len(geoms)) :
            geometry_errors' = outside_points(geoms, inside, ord, 1)
    /\ step' = "return"
    /\ UNCHANGED <<rule, kind, geoms, others, candidates, addresses, emitted, topology_result>>
    /\ UNCHANGED <<endpoints, subset, kernel, points, mergeVars>>
    /\ UNCHANGED libVars

\* lines 34-38 (60-64): Valid, or Errors with one bucket of the input's kind
InsideReturn ==
    /\ rule = "must_be_inside" /\ step = "return"
    /\ topology_result' = IF geometry_errors = <<>> THEN Valid
                          ELSE Errors(<< TopologyError(kind, geometry_errors) >>)
    /\ step' = "done"
    /\ UNCHANGED <<rule, kind, geoms, others, candidates, addresses, emitted, geometry_errors>>
    /\ UNCHANGED <<endpoints, subset, kernel, points, mergeVars>>
    /\ UNCHANGED libVars

NextInside == InsideScan \/ InsideReturn

SpecInside == InitInside /\ [][NextInside]_vars

\* The input geometries no polygon of `other` contains.
Uncontained ==
    { n \in 1..Len(geoms) :
        ~ \E j \in 1..Len(others) : InsideContains(kind, others[j], geoms[n]) }

\* C14: must_be_inside reports an input geometry iff no single polygon
\* contains it, every uncontained input geometry once, in one bucket of the
\* input's kind; with no polygon every input geometry is reported.
InsideReportsUncontained ==
    (rule = "must_be_inside" /\ step = "done") =>
        /\ \A n \in 1..Len(geoms) :
              geoms[n] \in Range(Bucket(kind)) <=> n \in Uncontained
        /\ Range(Bucket(kind)) \subseteq Range(geoms)
        /\ Len(Bucket(kind)) = Cardinality(Uncontained)
        /\ topology_result = IF Uncontained = {} THEN Valid
                             ELSE Errors(<< TopologyError(kind, Bucket(kind)) >>)
        /\ others = <<>> => Len(Bucket(kind)) = Len(geoms)

\* A linestring that lies in two adjacent polygons together but in neither
\* alone is reported beside one that a polygon contains.
InsideReportsUncontainedWitness ==
    /\ rule = "must_be_inside" /\ step = "done" /\ kind = "LineString"
    /\ Len(others) = 2
    /\ \E n \in Uncontained :
          \A q \in SamplesOf(geoms[n]) : TouchCells(q) \cap (others[1] \cup others[2]) # {}
    /\ \E n \in 1..Len(geoms) : n \notin Uncontained

-----------------------------------------------------------------------------
(* must_not_be_multipart (rule/must_not_be_multipart.rs).                   *)

\* The variants of geo::Geometry; a geometry is [kind, id], the id telling
\* apart the geometries of one kind.
GeometryKinds ==
    { "Point", "Line", "LineString", "Polygon", "MultiPoint", "MultiLineString",
      "MultiPolygon", "GeometryCollection", "Rect", "Triangle" }

MultipartKinds == { "MultiPoint", "MultiLineString", "MultiPolygon" }

\* Two geometries of each multipart kind, one of every other kind.
MultipartPool ==
    { [kind |-> k, id |-> n] : k \in MultipartKinds, n \in 1..2 }
        \cup { [kind |-> k, id |-> 1] : k \in GeometryKinds \ MultipartKinds }

\* An arm table that lets multipolygons through.
MatchArmNoMultiPolygon(geometry) ==
    CASE geometry.kind = "MultiPoint" -> "multipoints"
      [] geometry.kind = "MultiLineString" -> "multilinestrings"
      [] OTHER -> "none"

\* lines 14-23: the arm of `match geometry` taken, named by the Vec it pushes to
MatchArm(geometry) ==
    CASE geometry.kind = "MultiPoint" -> "multipoints"
      [] geometry.kind = "MultiLineString" -> "multilinestrings"
      [] geometry.kind = "MultiPolygon" -> "multipolygons"
      [] OTHER -> "none"

\* lines 13-24: the Vec `arm` names after the for_each over gs
RECURSIVE MultipartCollect(_, _)
MultipartCollect(gs, arm) ==
    IF gs = <<>> THEN <<>>
    ELSE IF MatchArm(Head(gs)) = arm
         THEN << Head(gs) >> \o MultipartCollect(Tail(gs), arm)
         ELSE MultipartCollect(Tail(gs), arm)

\* lines 25-35: geometry_errors after the three pushes
MultipartErrors(gs) ==
    LET multipoints == MultipartCollect(gs, "multipoints")
        multilinestrings == MultipartCollect(gs, "multilinestrings")
        multipolygons == MultipartCollect(gs, "multipolygons")
    IN  (IF multipoints # <<>> THEN << TopologyError("MultiPoint", multipoints) >> ELSE <<>>)
        \o (IF multilinestrings # <<>>
            THEN << TopologyError("MultiLineString", multilinestrings) >> ELSE <<>>)
        \o (IF multipolygons # <<>>
            THEN << TopologyError("MultiPolygon", multipolygons) >> ELSE <<>>)

InitMultipart ==
    /\ rule = "must_not_be_multipart"
    /\ kind = "Geometry"
    /\ geoms \in SeqsUpTo(MultipartPool, MaxGeoms)
    /\ others = <<>>
    /\ candidates = {} /\ addresses = {}
    /\ geometry_errors = <<>> /\ emitted = <<>>
    /\ topology_result = Pending
    /\ step = "scan"
    /\ endpoints = <<>> /\ subset = <<>>
    /\ kernel = [lines |-> <<>>, proper |-> {}, improper |-> {}]
    /\ points = <<>>
    /\ MergeIdle
    /\ LibIdle

\* lines 9-35: the for_each over the input, then the pushes of the non-empty Vecs
MultipartScan ==
    /\ rule = "must_not_be_multipart" /\ step = "scan"
    /\ geometry_errors' = MultipartErrors(geoms)
    /\ step' = "return"
    /\ UNCHANGED <<rule, kind, geoms, others, candidates, addresses, emitted, topology_result>>
    /\ UNCHANGED <<endpoints, subset, kernel, points, mergeVars>>
    /\ UNCHANGED libVars

\* lines 36-40: Valid when geometry_errors is empty, else Errors(geometry_errors)
MultipartReturn ==
    /\ rule = "must_not_be_multipart" /\ step = "return"
    /\ topology_result' = IF geometry_errors = <<>> THEN Valid ELSE Errors(geometry_errors)
    /\ step' = "done"
    /\ UNCHANGED <<rule, kind, geoms, others, candidates, addresses, emitted, geometry_errors>>
    /\ UNCHANGED <<endpoints, subset, kernel, points, mergeVars>>
    /\ UNCHANGED libVars

NextMultipart == MultipartScan \/ MultipartReturn

SpecMultipart == InitMultipart /\ [][NextMultipart]_vars

\* The positions of the errors of kind k in the returned TopologyResult.
BucketsOf(k) ==
    { n \in 1..Len(topology_result.errors) : topology_result.errors[n].kind = k }

\* The input geometries of kind k, in input order.
InputOfKind(k) == SelectSeq(geoms, LAMBDA g : g.kind = k)

\* C15: must_not_be_multipart partitions its input: the bucket of each
\* multipart kind is the input's geometries of that kind, each once and in
\* input order, there is at most one bucket per kind, no geometry of another
\* kind is in any bucket, and the result is Valid iff the input holds no
\* multipart geometry.
MultipartPartition ==
    (rule = "must_not_be_multipart" /\ step = "done") =>
        /\ \A k \in MultipartKinds :
              /\ Bucket(k) = InputOfKind(k)
              /\ Cardinality(BucketsOf(k)) <= 1
        /\ \A k \in GeometryKinds \ MultipartKinds : BucketsOf(k) = {}
        /\ \A n \in 1..Len(topology_result.errors) :
              \A g \in Range(topology_result.errors[n].geometries) :
                  g.kind = topology_result.errors[n].kind
        /\ topology_result = Valid <=> \A n \in 1..Len(geoms) : geoms[n].kind \notin MultipartKinds

\* Two multipolygons around a point and a multipoint: two buckets, the
\* multipolygons in input order, the point in neither.
MultipartPartitionWitness ==
    /\ rule = "must_not_be_multipart" /\ step = "done"
    /\ Len(geoms) = 3
    /\ geoms[1] = [kind |-> "MultiPolygon", id |-> 2]
    /\ geoms[2] = [kind |-> "Point", id |-> 1]
    /\ geoms[3] = [kind |-> "MultiPolygon", id |-> 1]
    /\ Bucket("MultiPolygon") = << geoms[1], geoms[3] >>

-----------------------------------------------------------------------------
(* The remaining rule functions of rule/must_not_overlap.rs, and every     *)
(* rule function together.                                                 *)

\* Vec<LineString>::must_not_overlap (lines 82-92), on entry.
InitLineOverlap ==
    /\ rule = "must_not_overlap(LineString)"
    /\ kind = "LineString"
    /\ geoms \in InputLists(MaxGeoms)
    /\ others = <<>>
    /\ candidates = {} /\ addresses = {}
    /\ geometry_errors = <<>> /\ emitted = <<>>
    /\ topology_result = Pending
    /\ step = "kernel"
    /\ endpoints = <<>> /\ subset = <<>>
    /\ kernel = [lines |-> <<>>, proper |-> {}, improper |-> {}]
    /\ points = <<>>
    /\ MergeIdle
    /\ LibIdle

\* lines 83-84: the collinear overlaps of the sweep over the exploded linestrings
LineOverlapKernel ==
    /\ rule = "must_not_overlap(LineString)" /\ step = "kernel"
    /\ kernel' = intersections(explode_linestrings(geoms))
    /\ geometry_errors' = kernel'.lines
    /\ step' = "return"
    /\ UNCHANGED <<rule, kind, geoms, others, candidates, addresses, emitted, topology_result>>
    /\ UNCHANGED <<endpoints, subset, points, mergeVars>>
    /\ UNCHANGED libVars

\* lines 85-91: Valid, or Errors with one LineString bucket
LineOverlapReturn ==
    /\ rule = "must_not_overlap(LineString)" /\ step = "return"
    /\ topology_result' = IF geometry_errors = <<>> THEN Valid
                          ELSE Errors(<< TopologyError("LineString", geometry_errors) >>)
    /\ step' = "done"
    /\ UNCHANGED <<rule, kind, geoms, others, candidates, addresses, emitted, geometry_errors>>
    /\ UNCHANGED <<endpoints, subset, kernel, points, mergeVars>>
    /\ UNCHANGED libVars

NextLineOverlap == LineOverlapKernel \/ LineOverlapReturn

\* lines 180-182: for the n-th linestring, the pairs of its own segments the
\* join of its tree with itself yields
SelfCandidates(ls_vec) ==
    UNION { { <<n, c[1], c[2]>> :
                c \in intersection_candidates_with_other_tree(
                         "LineString", explode_linestrings(<< ls_vec[n] >>),
                         explode_linestrings(<< ls_vec[n] >>)) }
            : n \in 1..Len(ls_vec) }

\* Vec<LineString>::must_not_self_overlap (lines 176-199), on entry.
InitSelfOverlap ==
    /\ rule = "must_not_self_overlap"
    /\ kind = "LineString"
    /\ geoms \in InputLists(MaxGeoms)
    /\ others = <<>>
    /\ candidates = SelfCandidates(geoms)
    /\ addresses = {}
    /\ geometry_errors = <<>> /\ emitted = <<>>
    /\ topology_result = Pending
    /\ MergeIdle
    /\ IntersectIdle
    /\ LibIdle

\* lines 179-190: flat_map takes the linestrings in order; the join of one
\* linestring's tree yields its pairs in any order, the closure filters them
FilterSelfPair ==
    /\ rule = "must_not_self_overlap" /\ topology_result = Pending
    /\ \E c \in candidates :
         /\ \A d \in candidates : c[1] <= d[1]
         /\ candidates' = candidates \ {c}
         /\ LET lines == explode_linestrings(<< geoms[c[1]] >>)
            IN  IF c[2] # c[3] /\ LineContainsLine(lines[c[2]], lines[c[3]])
                THEN /\ geometry_errors' = Append(geometry_errors, lines[c[3]])
                     /\ emitted' = Append(emitted, c)
                ELSE UNCHANGED <<geometry_errors, emitted>>
    /\ UNCHANGED <<rule, kind, geoms, others, addresses, topology_result>>
    /\ UNCHANGED <<mergeVars, intersectVars>>
    /\ UNCHANGED libVars

\* lines 192-198: Valid, or Errors with one LineString bucket
SelfOverlapReturn ==
    /\ rule = "must_not_self_overlap" /\ topology_result = Pending /\ candidates = {}
    /\ topology_result' = IF geometry_errors = <<>> THEN Valid
                          ELSE Errors(<< TopologyError("LineString", geometry_errors) >>)
    /\ UNCHANGED <<rule, kind, geoms, others, candidates, addresses, geometry_errors, emitted>>
    /\ UNCHANGED <<mergeVars, intersectVars>>
    /\ UNCHANGED libVars

NextSelfOverlap == FilterSelfPair \/ SelfOverlapReturn

\* A call of any rule function of the library.
InitRules ==
    \/ InitOverlap
    \/ InitLineOverlap
    \/ InitSelfOverlap
    \/ InitOverlapWith
    \/ InitIntersect
    \/ InitDangles
    \/ InitGaps
    \/ InitInside
    \/ InitMultipart

NextRules ==
    \/ NextOverlap
    \/ NextLineOverlap
    \/ NextSelfOverlap
    \/ NextOverlapWith
    \/ NextIntersect
    \/ NextDangles
    \/ NextGaps
    \/ NextInside
    \/ NextMultipart

SpecRules == InitRules /\ [][NextRules]_vars

\* C16: every TopologyResult a rule function returns is Valid exactly when
\* the error sequence the rule computed is empty, Errors never holds an
\* empty list, every TopologyError in it holds at least one geometry, and
\* no two of them are of the same geometry kind.
ResultWellFormed ==
    topology_result # Pending =>
        /\ topology_result.tag \in { "Valid", "Errors" }
        /\ topology_result.tag = "Valid" <=> geometry_errors = <<>>
        /\ topology_result.tag = "Valid" <=> topology_result.errors = <<>>
        /\ \A n \in 1..Len(topology_result.errors) :
              /\ topology_result.errors[n].geometries # <<>>
              /\ \A m \in 1..Len(topology_result.errors) :
                    topology_result.errors[m].kind = topology_result.errors[n].kind => m = n

\* must_not_intersect returns a Point and a LineString bucket together.
ResultWellFormedWitness ==
    /\ rule = "must_not_intersect"
    /\ topology_result.tag = "Errors"
    /\ Len(topology_result.errors) = 2
    /\ Len(topology_result.errors[1].geometries) >= 2

-----------------------------------------------------------------------------
(* TopologyResult::unwrap_err and the per-kind accessors (lib.rs).          *)

\* The variants of TopologyError (lib.rs 104-111).
ErrorKinds ==
    { "Point", "LineString", "Polygon", "MultiPoint", "MultiLineString", "MultiPolygon" }

\* The largest number of TopologyErrors of a TopologyResult handed to an accessor.
MaxErrors == 2

\* The error buckets the accessors are tried on: one or two geometries of a kind.
ErrorPool == { TopologyError(k, g) : k \in ErrorKinds, g \in { <<1>>, <<1, 2>> } }

\* TopologyResult is a public enum: any Vec of TopologyErrors can be in Errors.
AccessorResults == { Valid } \cup { Errors(e) : e \in SeqsUpTo(ErrorPool, MaxErrors) }

\* The value a call hands back to its caller.
Reference(v) == [tag |-> "Reference", value |-> v]
Panic(msg) == [tag |-> "Panic", message |-> msg]

\* lines 284-289: the Vec of Errors, a panic on Valid
unwrap_err(result) ==
    IF result.tag = "Errors" THEN Reference(result.errors)
    ELSE Panic("Called unwrap_err on a Valid variant.")

\* The message of the accessor's `expect` (lines 317, 329, 341, 353, 365, 377).
ExpectMessage(k) ==
    CASE k = "Point" -> "No point errors exist."
      [] k = "LineString" -> "No linestring errors exist."
      [] k = "Polygon" -> "No polygon errors exist."
      [] k = "MultiPoint" -> "No multipoint errors exist."
      [] k = "MultiLineString" -> "No multilinestring errors exist."
      [] k = "MultiPolygon" -> "No multipolygon errors exist."

\* lines 308-378: unwrap_err_point .. unwrap_err_multipolygon, k naming the
\* kind: unwrap_err(), then find, then expect
unwrap_err_kind(result, k) ==
    LET errs == unwrap_err(result)
    IN  IF errs.tag = "Panic" THEN errs
        ELSE LET hits == { n \in 1..Len(errs.value) : errs.value[n].kind = k }
             IN  IF hits = {} THEN Panic(ExpectMessage(k))
                 ELSE Reference(errs.value[SetMin(hits)])

InitAccessor ==
    /\ rule = "none" /\ kind = "none"
    /\ geoms = <<>> /\ others = <<>>
    /\ candidates = {} /\ addresses = {}
    /\ geometry_errors = <<>> /\ emitted = <<>>
    /\ topology_result \in AccessorResults
    /\ IntersectIdle
    /\ MergeIdle
    /\ results = <<>> /\ cursor = <<1, 1>>
    /\ dataset = <<>> /\ committed = <<>>
    /\ outcome = [tag |-> "none"]
    /\ accessor \in ErrorKinds
    /\ command = "none"
    /\ input = NoInput /\ commands = <<>>

\* A call of the accessor of kind `accessor` on topology_result.
CallAccessor ==
    /\ accessor # "none" /\ outcome.tag = "none"
    /\ outcome' = unwrap_err_kind(topology_result, accessor)
    /\ UNCHANGED <<results, cursor, dataset, committed, accessor, command, input, commands>>
    /\ UNCHANGED <<mergeVars, ruleVars, intersectVars>>

NextAccessor == CallAccessor

SpecAccessor == InitAccessor /\ [][NextAccessor]_vars

\* The positions of the errors of the accessor's kind in topology_result.
AccessorHits ==
    { n \in 1..Len(topology_result.errors) : topology_result.errors[n].kind = accessor }

\* C17: a per-kind accessor returns the first TopologyError of its kind when
\* one exists, and when none exists (the result is Valid or holds only other
\* kinds) it hands a recoverable error value to the caller: it does not panic.
AccessorRecoverable ==
    (accessor # "none" /\ outcome.tag # "none") =>
        IF AccessorHits # {}
        THEN outcome = Reference(topology_result.errors[SetMin(AccessorHits)])
        ELSE outcome.tag = "Err"

-----------------------------------------------------------------------------
(* TopologyError::export and TopologyResults::export (lib.rs).              *)

\* The largest number of (rule name, TopologyResult) pairs exported together.
MaxResults == 2

Ok == [tag |-> "Ok", at |-> "none"]
\* An Err handed to the caller, `at` naming the call it stems from.
Err(at) == [tag |-> "Err", at |-> at]
\* A panic, `at` naming the unwrap or expect that raised it.
PanicAt(at) == [tag |-> "Panic", at |-> at]

\* OGR's name of the geometry type of a TopologyError's geometries (line 190).
geometry_name(k) ==
    CASE k = "Point" -> "POINT"
      [] k = "LineString" -> "LINESTRING"
      [] k = "Polygon" -> "POLYGON"
      [] k = "MultiPoint" -> "MULTIPOINT"
      [] k = "MultiLineString" -> "MULTILINESTRING"
      [] k = "MultiPolygon" -> "MULTIPOLYGON"

\* lines 205-209 (230-234): the features create_feature_fields makes of the
\* first m geometries, each with the field `rule` set to the rule name
Features(error, rule_name, m) ==
    [j \in 1..m |-> [geom |-> error.geometries[j], rule |-> rule_name]]

\* lines 193-199: the layers of the dataset whose geometry type is the error's
LayersOfType(ds, error) == { n \in 1..Len(ds) : ds[n].ty = error.kind }

\* The calls of TopologyError::export that can fail when it is handed a
\* dataset: an existing layer is only appended to, a new one is created first.
FailPoints(ds, error) ==
    IF LayersOfType(ds, error) # {}
    THEN { "to_gdal", "create_feature_fields" }
    ELSE { "to_gdal", "create_layer", "FieldDefn::new", "add_to_layer", "create_feature_fields" }

\* lines 187-239 with `dataset` given: the dataset after the call and the
\* value the call ends with. `fail` names the call that fails ("none": no
\* call fails), k the feature whose creation fails.
TopologyErrorExport(ds, error, rule_name, fail, k) ==
    LET hits == LayersOfType(ds, error)
        m == IF fail = "create_feature_fields" THEN k - 1 ELSE Len(error.geometries)
        ret == IF fail = "create_feature_fields" THEN Err(fail) ELSE Ok
        empty == [name |-> geometry_name(error.kind), ty |-> error.kind,
                  fields |-> <<>>, features |-> <<>>]
    IN  IF fail = "to_gdal" THEN [dataset |-> ds, ret |-> Err(fail)]
        ELSE IF hits # {}
        THEN [dataset |-> [ds EXCEPT ![SetMin(hits)].features =
                                        @ \o Features(error, rule_name, m)],
              ret |-> ret]
        ELSE IF fail = "create_layer" THEN [dataset |-> ds, ret |-> Err(fail)]
        ELSE IF fail = "FieldDefn::new" THEN [dataset |-> Append(ds, empty), ret |-> Err(fail)]
        ELSE IF fail = "add_to_layer" THEN [dataset |-> Append(ds, empty), ret |-> PanicAt(fail)]
        ELSE [dataset |-> Append(ds, [empty EXCEPT !.fields = << "rule" >>,
                                                   !.features = Features(error, rule_name, m)]),
              ret |-> ret]

\* A transaction that keeps its writes when it is dropped.
RollbackKeeps(ds) == ds

\* gdal's Transaction dropped without commit: the writes are rolled back.
Rollback(ds) == <<>>

\* The results rule functions return: Valid, or a Point bucket, a LineString
\* bucket or both, with one or two geometries each.
ExportResults ==
    LET P == { TopologyError("Point", g) : g \in { <<1>>, <<1, 2>> } }
        L == { TopologyError("LineString", g) : g \in { <<1>>, <<1, 2>> } }
    IN  { Valid } \cup { Errors(<< p >>) : p \in P } \cup { Errors(<< l >>) : l \in L }
            \cup { Errors(<< p, l >>) : p \in P, l \in L }

\* main.rs 468: the name of the n-th result is format!("{}-{}", index, rule):
\* the pair of the index and the rule's name.
RuleNameAt(n) == << n, IF n % 2 = 1 THEN "must-not-overlap" ELSE "must-not-intersect" >>

InitExport ==
    /\ results \in { [n \in 1..Len(r) |-> [rule_name |-> RuleNameAt(n), result |-> r[n]]] :
                        r \in SeqsUpTo(ExportResults, MaxResults) }
    /\ cursor = <<1, 1>>
    /\ dataset = <<>> /\ committed = <<>>
    /\ outcome = [tag |-> "none"]
    /\ accessor = "none" /\ command = "none"
    /\ input = NoInput /\ commands = <<>>
    /\ rule = "none" /\ kind = "none"
    /\ geoms = <<>> /\ others = <<>>
    /\ candidates = {} /\ addresses = {}
    /\ geometry_errors = <<>> /\ emitted = <<>>
    /\ topology_result = Pending
    /\ step = "create"
    /\ endpoints = <<>> /\ subset = <<>>
    /\ kernel = [lines |-> <<>>, proper |-> {}, improper |-> {}]
    /\ points = <<>>
    /\ MergeIdle

\* lines 400-406: the driver is looked up and the geopackage created
ExportCreate ==
    /\ step = "create"
    /\ \E fail \in { "none", "get_driver_by_name", "create_vector_only" } :
         /\ outcome' = IF fail = "none" THEN outcome
                       ELSE IF fail = "get_driver_by_name" THEN PanicAt(fail) ELSE Err(fail)
         /\ step' = IF fail = "none" THEN "start" ELSE "done"
    /\ UNCHANGED <<results, cursor, dataset, committed, accessor, command, input, commands>>
    /\ UNCHANGED <<mergeVars, ruleVars, endpoints, subset, kernel, points>>

\* lines 407-409: the transaction is started
ExportStart ==
    /\ step = "start"
    /\ \E fail \in { "none", "start_transaction" } :
         /\ outcome' = IF fail = "none" THEN outcome ELSE Err(fail)
         /\ step' = IF fail = "none" THEN "loop" ELSE "done"
    /\ UNCHANGED <<results, cursor, dataset, committed, accessor, command, input, commands>>
    /\ UNCHANGED <<mergeVars, ruleVars, endpoints, subset, kernel, points>>

\* lines 410-412: a Valid result is summarised and passed over
ExportValid ==
    /\ step = "loop" /\ cursor[1] <= Len(results)
    /\ results[cursor[1]].result.tag = "Valid"
    /\ cursor' = << cursor[1] + 1, 1 >>
    /\ UNCHANGED <<results, dataset, committed, outcome, accessor, command, input, commands>>
    /\ UNCHANGED <<mergeVars, ruleVars, intersectVars>>

\* lines 414-421: one TopologyError of the result is exported into the
\* transaction; a failure leaves the loop through `?` or a panic
ExportBucket ==
    /\ step = "loop" /\ cursor[1] <= Len(results)
    /\ results[cursor[1]].result.tag = "Errors"
    /\ \E error \in { results[cursor[1]].result.errors[cursor[2]] } :
       \E fail \in { "none" } \cup FailPoints(dataset, error) :
       \E k \in IF fail = "create_feature_fields" THEN 1..Len(error.geometries) ELSE { 1 } :
       \E done \in { TopologyErrorExport(dataset, error, results[cursor[1]].rule_name, fail, k) } :
         /\ dataset' = done.dataset
         /\ IF done.ret = Ok
            THEN /\ cursor' = IF cursor[2] = Len(results[cursor[1]].result.errors)
                              THEN << cursor[1] + 1, 1 >>
                              ELSE << cursor[1], cursor[2] + 1 >>
                 /\ UNCHANGED <<outcome, step>>
            ELSE /\ outcome' = done.ret
                 /\ step' = "unwind"
                 /\ UNCHANGED cursor
    /\ UNCHANGED <<results, committed, accessor, command, input, commands>>
    /\ UNCHANGED <<mergeVars, ruleVars, endpoints, subset, kernel, points>>

\* lines 424-425: every result has been passed; the transaction is committed
ExportCommit ==
    /\ step = "loop" /\ cursor[1] > Len(results)
    /\ \E fail \in { "none", "commit" } :
         /\ outcome' = IF fail = "none" THEN Ok ELSE PanicAt(fail)
         /\ committed' = IF fail = "none" THEN dataset ELSE committed
         /\ dataset' = IF fail = "none" THEN dataset ELSE Rollback(dataset)
    /\ step' = "done"
    /\ UNCHANGED <<results, cursor, accessor, command, input, commands>>
    /\ UNCHANGED <<mergeVars, ruleVars, endpoints, subset, kernel, points>>

\* The call is left with the transaction open: `txn` is dropped, which rolls
\* back, then the dataset is closed.
ExportUnwind ==
    /\ step = "unwind"
    /\ dataset' = Rollback(dataset)
    /\ committed' = dataset'
    /\ step' = "done"
    /\ UNCHANGED <<results, cursor, outcome, accessor, command, input, commands>>
    /\ UNCHANGED <<mergeVars, ruleVars, endpoints, subset, kernel, points>>

NextExport ==
    ExportCreate \/ ExportStart \/ ExportValid \/ ExportBucket \/ ExportCommit \/ ExportUnwind

SpecExport == InitExport /\ [][NextExport]_vars

\* What a complete export writes: a feature for every geometry of every
\* bucket of every result, of the bucket's kind and tagged with the rule name.
ExpectedFeatures ==
    UNION { UNION { { [ty |-> results[n].result.errors[e].kind,
                       geom |-> results[n].result.errors[e].geometries[j],
                       rule |-> results[n].rule_name]
                      : j \in 1..Len(results[n].result.errors[e].geometries) }
                    : e \in 1..Len(results[n].result.errors) }
            : n \in 1..Len(results) }

\* The features the destination holds durably.
CommittedFeatures ==
    UNION { { [ty |-> committed[n].ty, geom |-> f.geom, rule |-> f.rule]
              : f \in Range(committed[n].features) }
            : n \in 1..Len(committed) }

RECURSIVE FeatureCount(_)
FeatureCount(ds) ==
    IF ds = <<>> THEN 0 ELSE Len(Head(ds).features) + FeatureCount(Tail(ds))

\* Every bucket of every result is in the destination, each geometry once.
AllWritten ==
    /\ CommittedFeatures = ExpectedFeatures
    /\ FeatureCount(committed) = Cardinality(ExpectedFeatures)

\* The calls made while a bucket is written.
BucketWrites ==
    { "to_gdal", "create_layer", "FieldDefn::new", "add_to_layer", "create_feature_fields" }

LayerPerRuleAndKind ==
    (step = "done" /\ outcome = Ok) =>
        /\ AllWritten
        /\ \A n \in 1..Len(committed) :
              /\ committed[n].fields = << "rule" >>
              /\ \A f, g \in Range(committed[n].features) : f.rule = g.rule
        /\ \A n, m \in 1..Len(committed) :
              (n # m /\ committed[n].features # <<>> /\ committed[m].features # <<>>
                 /\ committed[n].ty = committed[m].ty)
                => committed[n].features[1].rule # committed[m].features[1].rule

-----------------------------------------------------------------------------
(* The rule subcommands of the command line (main.rs, parse_rules).         *)

\* A rule subcommand: the accessor its export block calls ("each": a loop
\* over unwrap_err()), whether the block is guarded by `!result.is_valid()`,
\* its output arguments, those given on the command line (none in the table),
\* and the kinds of TopologyError its rule returns.
CliRule(g, r, acc, guard, outs, ks) ==
    [geometry |-> g, rule |-> r, accessor |-> acc, guarded |-> guard,
     outputs |-> outs, given |-> {}, kinds |-> ks]

\* main.rs 493-726: the arms of the match on args.command
CliRules ==
    { CliRule("point", "must-not-overlap", "Point", TRUE, { "overlaps" }, << "Point" >>),
      CliRule("point", "must-not-overlap-with", "Point", TRUE, { "overlaps" }, << "Point" >>),
      CliRule("point", "must-be-inside", "Point", TRUE, { "outside" }, << "Point" >>),
      CliRule("line", "must-not-have-dangles", "Point", TRUE, { "dangles" }, << "Point" >>),
      CliRule("line", "must-not-intersect", "each", TRUE,
              { "single_points", "collinear_lines" }, << "Point", "LineString" >>),
      CliRule("line", "must-not-overlap", "LineString", TRUE, { "overlaps" }, << "LineString" >>),
      CliRule("line", "must-not-overlap-with", "LineString", TRUE, { "overlaps" },
              << "LineString" >>),
      CliRule("line", "must-not-self-overlap", "LineString", TRUE, { "overlaps" },
              << "LineString" >>),
      CliRule("line", "must-be-inside", "LineString", TRUE, { "outside_lines" },
              << "LineString" >>),
      CliRule("polygon", "must-not-overlap", "Polygon", TRUE, { "overlaps" }, << "Polygon" >>),
      CliRule("polygon", "must-not-overlap-with", "Polygon", FALSE, { "overlaps" },
              << "Polygon" >>),
      CliRule("polygon", "must-not-have-gaps", "LineString", FALSE, { "gaps" },
              << "LineString" >>),
      CliRule("geometry", "must-not-be-multipart", "each", FALSE, { "multiparts" },
              << "MultiPoint", "MultiLineString", "MultiPolygon" >>) }

\* main.rs 576-589, 719: the output argument an error of kind k is exported to
OutputFor(cmd, k) ==
    IF cmd.rule = "must-not-intersect"
    THEN (IF k = "Point" THEN "single_points" ELSE "collinear_lines")
    ELSE CHOOSE o \in cmd.outputs : TRUE

\* The error sequences a rule returning the kinds ks can compute: a bucket of
\* one or two geometries for any of the kinds, in the order of ks.
RECURSIVE Buckets(_)
Buckets(ks) ==
    IF ks = <<>> THEN { <<>> }
    ELSE LET rest == Buckets(Tail(ks))
         IN  rest \cup { << TopologyError(Head(ks), g) >> \o r :
                            g \in { <<1>>, <<1, 2>> }, r \in rest }

\* The TopologyResults the rule of a subcommand can return.
CliResults(cmd) == { Valid } \cup { Errors(e) : e \in Buckets(cmd.kinds) \ { <<>> } }

\* The destinations after the dataset ds has been created at the output `out`.
Written(files, out, ds) ==
    SelectSeq(files, LAMBDA f : f.output # out) \o << [output |-> out, layers |-> ds] >>

\* The calls of an export to a destination that can fail: creating the
\* dataset, then those of TopologyError::export.
CliFailPoints(error) ==
    { "infer_driver_name", "create_dataset" } \cup FailPoints(<<>>, error)

\* lib.rs 176-239 with `output` given and no dataset: the destinations and the
\* value the call ends with
CliExported(files, out, error, rule_name, fail, k) ==
    IF fail = "infer_driver_name" THEN [files |-> files, ret |-> PanicAt(fail)]
    ELSE IF fail = "create_dataset" THEN [files |-> files, ret |-> Err(fail)]
    ELSE LET done == TopologyErrorExport(<<>>, error, rule_name, fail, k)
         IN  [files |-> Written(files, out, done.dataset), ret |-> done.ret]

\* The inputs have been read and the rule function has returned.
InitCli ==
    /\ \E cmd \in CliRules :
         /\ \E given \in SUBSET cmd.outputs :
               command = [cmd EXCEPT !.given = given]
         /\ topology_result \in CliResults(cmd)
    /\ results = <<>> /\ cursor = <<1, 1>>
    /\ dataset = <<>> /\ committed = <<>>
    /\ outcome = [tag |-> "none"]
    /\ accessor = "none"
    /\ rule = "none" /\ kind = "none"
    /\ geoms = <<>> /\ others = <<>>
    /\ candidates = {} /\ addresses = {}
    /\ geometry_errors = <<>> /\ emitted = <<>>
    /\ step = "guard"
    /\ endpoints = <<>> /\ subset = <<>>
    /\ kernel = [lines |-> <<>>, proper |-> {}, improper |-> {}]
    /\ points = <<>>
    /\ MergeIdle
    /\ input = NoInput /\ commands = <<>>

\* The condition of the export block: `output.is_some() && !result.is_valid()`,
\* or `output.is_some()` alone (main.rs 687, 700, 717).
CliCondition(cmd, result) ==
    /\ cmd.given # {}
    /\ cmd.guarded => result.tag # "Valid"

\* The `if` of the export block; in the arms that loop, unwrap_err() is
\* called next (main.rs 575, 720).
CliGuard ==
    /\ step = "guard"
    /\ IF ~ CliCondition(command, topology_result)
       THEN step' = "summary" /\ UNCHANGED outcome
       ELSE IF command.accessor # "each"
       THEN step' = "export" /\ UNCHANGED outcome
       ELSE IF unwrap_err(topology_result).tag = "Panic"
       THEN step' = "done" /\ outcome' = PanicAt(unwrap_err(topology_result).message)
       ELSE step' = "each" /\ UNCHANGED outcome
    /\ UNCHANGED <<results, cursor, dataset, committed, accessor, command, input, commands>>
    /\ UNCHANGED <<mergeVars, ruleVars, endpoints, subset, kernel, points>>

\* `result.unwrap_err_<kind>().export(config)?` (main.rs 502 and alike)
CliExportOne ==
    /\ step = "export"
    /\ \E acc \in { unwrap_err_kind(topology_result, command.accessor) } :
         IF acc.tag = "Panic"
         THEN /\ outcome' = PanicAt(acc.message)
              /\ step' = "done"
              /\ UNCHANGED committed
         ELSE \E fail \in { "none" } \cup CliFailPoints(acc.value) :
              \E k \in IF fail = "create_feature_fields"
                       THEN 1..Len(acc.value.geometries) ELSE { 1 } :
              \E done \in { CliExported(committed, OutputFor(command, acc.value.kind),
                                        acc.value, command.rule, fail, k) } :
                 /\ committed' = done.files
                 /\ outcome' = IF done.ret = Ok THEN outcome ELSE done.ret
                 /\ step' = IF done.ret = Ok THEN "summary" ELSE "done"
    /\ UNCHANGED <<results, cursor, dataset, accessor, command, input, commands>>
    /\ UNCHANGED <<mergeVars, ruleVars, endpoints, subset, kernel, points>>

\* One turn of `for error in result.unwrap_err()` (main.rs 575-590, 720-722):
\* the error is exported when the output argument for its kind is given
CliExportEach ==
    /\ step = "each"
    /\ \E error \in { topology_result.errors[cursor[2]] } :
       \E fail \in IF OutputFor(command, error.kind) \in command.given
                   THEN { "none" } \cup CliFailPoints(error) ELSE { "none" } :
       \E k \in IF fail = "create_feature_fields" THEN 1..Len(error.geometries) ELSE { 1 } :
       \E done \in { IF OutputFor(command, error.kind) \in command.given
                     THEN CliExported(committed, OutputFor(command, error.kind),
                                      error, command.rule, fail, k)
                     ELSE [files |-> committed, ret |-> Ok] } :
         /\ committed' = done.files
         /\ outcome' = IF done.ret = Ok THEN outcome ELSE done.ret
         /\ step' = IF done.ret # Ok THEN "done"
                    ELSE IF cursor[2] = Len(topology_result.errors) THEN "summary" ELSE "each"
         /\ cursor' = IF done.ret = Ok /\ cursor[2] < Len(topology_result.errors)
                      THEN << 1, cursor[2] + 1 >> ELSE cursor
    /\ UNCHANGED <<results, dataset, accessor, command, input, commands>>
    /\ UNCHANGED <<mergeVars, ruleVars, endpoints, subset, kernel, points>>

\* main.rs 731-734 and 330-337: the summary is printed and main returns Ok
CliSummary ==
    /\ step = "summary"
    /\ outcome' = Ok
    /\ step' = "done"
    /\ UNCHANGED <<results, cursor, dataset, committed, accessor, command, input, commands>>
    /\ UNCHANGED <<mergeVars, ruleVars, endpoints, subset, kernel, points>>

NextCli == CliGuard \/ CliExportOne \/ CliExportEach \/ CliSummary

SpecCli == InitCli /\ [][NextCli]_vars

\* The failures of writing to a destination.
WriteFailures == { "infer_driver_name", "create_dataset" } \cup BucketWrites

\* A destination is given for an error the result holds.
DestinationForErrors ==
    \E n \in 1..Len(topology_result.errors) :
        OutputFor(command, topology_result.errors[n].kind) \in command.given

\* C20: for every rule subcommand, a run whose inputs were read ends without
\* failure whether the result is Valid or holds errors and whether or not a
\* destination is given (a failure to write the destination aside); error
\* geometries are written iff a destination is given and the result holds
\* errors; with a destination and a Valid result nothing is written and the
\* run succeeds.
CliRunSucceeds ==
    step = "done" =>
        /\ outcome.at \notin WriteFailures => outcome = Ok
        /\ outcome = Ok => (committed # <<>> <=> DestinationForErrors)
        /\ topology_result = Valid => (outcome = Ok /\ committed = <<>>)

-----------------------------------------------------------------------------
(* The two-input rule subcommands and validate_srs (main.rs, util/io.rs).   *)

\* The spatial reference of the first layer of a dataset: none, or a code.
SrsPool == { "None", "EPSG:4326", "EPSG:3857" }

\* The arms of parse_rules that open two datasets.
TwoInputRules ==
    { cmd \in CliRules : cmd.rule \in { "must-not-overlap-with", "must-be-inside" } }

\* VectorDataset::compare_srs as validate_srs uses it: Missing when a dataset
\* has no spatial reference, else Same or Different.
compare_srs(srs1, srs2) ==
    IF srs1 = "None" \/ srs2 = "None" THEN "Missing"
    ELSE IF srs1 = srs2 THEN "Same" ELSE "Different"

\* util/io.rs 89-101: an error for Different, Ok for Missing and Same
validate_srs(srs1, srs2) ==
    IF compare_srs(srs1, srs2) = "Different" THEN Err("validate_srs") ELSE Ok

\* The arms that call validate_srs after opening the two datasets (main.rs
\* 513, 532, 614, 647); PolygonRules::MustNotOverlapWith (680-686) does not.
CallsValidateSrs(cmd) == cmd.geometry # "polygon"

\* The two datasets have been opened.
InitSrs ==
    /\ \E cmd \in TwoInputRules, srs1 \in SrsPool, srs2 \in SrsPool :
          command = [geometry |-> cmd.geometry, rule |-> cmd.rule, kinds |-> cmd.kinds,
                     srs1 |-> srs1, srs2 |-> srs2]
    /\ topology_result = Pending
    /\ results = <<>> /\ cursor = <<1, 1>>
    /\ dataset = <<>> /\ committed = <<>>
    /\ outcome = [tag |-> "none"]
    /\ accessor = "none"
    /\ rule = "none" /\ kind = "none"
    /\ geoms = <<>> /\ others = <<>>
    /\ candidates = {} /\ addresses = {}
    /\ geometry_errors = <<>> /\ emitted = <<>>
    /\ step = "opened"
    /\ endpoints = <<>> /\ subset = <<>>
    /\ kernel = [lines |-> <<>>, proper |-> {}, improper |-> {}]
    /\ points = <<>>
    /\ MergeIdle
    /\ input = NoInput /\ commands = <<>>

\* `validate_srs(&vector_dataset, &other)?` in the arms that have it
SrsValidate ==
    /\ step = "opened" /\ CallsValidateSrs(command)
    /\ \E checked \in { validate_srs(command.srs1, command.srs2) } :
         /\ outcome' = IF checked = Ok THEN outcome ELSE checked
         /\ step' = IF checked = Ok THEN "evaluate" ELSE "done"
    /\ UNCHANGED <<results, cursor, dataset, committed, accessor, command, input, commands>>
    /\ UNCHANGED <<mergeVars, ruleVars, endpoints, subset, kernel, points>>

\* main.rs 682-685: the polygon arm goes on to read the geometries
SrsSkipped ==
    /\ step = "opened" /\ ~ CallsValidateSrs(command)
    /\ step' = "evaluate"
    /\ UNCHANGED <<results, cursor, dataset, committed, outcome, accessor, command, input, commands>>
    /\ UNCHANGED <<mergeVars, ruleVars, endpoints, subset, kernel, points>>

\* The geometries are read and the rule function is called on them.
SrsEvaluate ==
    /\ step = "evaluate"
    /\ topology_result' \in CliResults(command)
    /\ step' = "returned"
    /\ UNCHANGED <<rule, kind, geoms, others, candidates, addresses, geometry_errors, emitted>>
    /\ UNCHANGED <<results, cursor, dataset, committed, outcome, accessor, command, input, commands>>
    /\ UNCHANGED <<mergeVars, endpoints, subset, kernel, points>>

\* No output argument is given: the summary is printed and main returns Ok.
SrsSummary ==
    /\ step = "returned"
    /\ outcome' = Ok
    /\ step' = "done"
    /\ UNCHANGED <<results, cursor, dataset, committed, accessor, command, input, commands>>
    /\ UNCHANGED <<mergeVars, ruleVars, endpoints, subset, kernel, points>>

NextSrs == SrsValidate \/ SrsSkipped \/ SrsEvaluate \/ SrsSummary

SpecSrs == InitSrs /\ [][NextSrs]_vars

\* C21: every two-input rule invocation whose two datasets have different
\* spatial reference systems ends with an error returned to the caller, and
\* the rule is not evaluated on those inputs.
SrsMismatchRejected ==
    (command.srs1 # "None" /\ command.srs2 # "None" /\ command.srs1 # command.srs2) =>
        /\ topology_result = Pending
        /\ step = "done" => outcome.tag = "Err"

----------------------------------------------------------------------------
(* Termination of merge_linestrings.                                       *)

\* ProcessSlot can be taken: some delivery order always exists, and the step
\* advances i.  This is ENABLED <<ProcessSlot>>_vars written as a state predicate.
ProcessSlotEnabled == pc = "pass" /\ i <= Len(linestrings) /\ linestrings[i] # None

\* The function is sequential code that runs on: the statement it has reached
\* is executed.  The last conjunct is WF_vars(ProcessSlot) written out.
FairSpecMerge ==
    /\ SpecMerge
    /\ WF_vars(SkipSlot \/ NextPass \/ Return \/ CallAgain)
    /\ ([]<>(~ ProcessSlotEnabled) \/ []<><<ProcessSlot>>_vars)

\* A pass has just been completed.
PassCompleted == pc = "pass" /\ i > Len(linestrings)

\* C26: merge_linestrings terminates on every finite input: the number of
\* present slots never increases, the function returns at the end of the
\* first pass after which the count of present slots equals the count
\* recorded for the previous pass, and not before, and every call returns.
MergeTerminates ==
    /\ [][Count(linestrings') <= Count(linestrings)]_vars
    /\ [][(PassCompleted /\ prev_count = Count(linestrings)) => pc' = "done"]_vars
    /\ [][(pc = "pass" /\ pc' = "done") =>
             (PassCompleted /\ prev_count = Count(linestrings))]_vars
    /\ (pc = "pass") ~> (pc = "done")

\* A call that merged linestrings, among them a closed one, has returned.
MergeTerminatesWitness ==
    /\ pc = "done" /\ run = 1
    /\ Len(out1) < Len(xs)
    /\ prev_count = Len(out1)
    /\ \E n \in 1..Len(out1) : is_closed(out1[n])

----------------------------------------------------------------------------
(* merge_linestrings with the candidates of every compute_linestring call  *)
(* delivered in index order.                                               *)

\* The indices of S in ascending order.
RECURSIVE IndexOrder(_)
IndexOrder(S) ==
    IF S = {} THEN <<>>
    ELSE LET m == CHOOSE e \in S : \A f \in S : e <= f
         IN  <<m>> \o IndexOrder(S \ {m})

\* The body of the `for i` loop from slot k on, candidates in index order.
RECURSIVE PassInOrder(_, _)
PassInOrder(ls_vec, k) ==
    IF k > Len(ls_vec) THEN ls_vec
    ELSE IF ls_vec[k] = None THEN PassInOrder(ls_vec, k + 1)
    ELSE LET linestring_ref == ls_vec[k]
             taken == [ls_vec EXCEPT ![k] = None]
             computed == compute_linestring(taken, linestring_ref,
                                            IndexOrder(intersected_lines(taken, linestring_ref)))
             removed == { computed.to_remove[n] : n \in 1..Len(computed.to_remove) }
         IN  PassInOrder([j \in 1..Len(ls_vec) |->
                             IF j = k THEN WriteBack(computed.result, linestring_ref)
                             ELSE IF j \in removed THEN None
                             ELSE ls_vec[j]], k + 1)

\* The `loop` of merge_linestrings, candidates in index order.
RECURSIVE LoopInOrder(_, _)
LoopInOrder(ls_vec, prev) ==
    LET after == PassInOrder(ls_vec, 1)
    IN  IF Converged(prev, Count(after)) THEN Compact(after)
        ELSE LoopInOrder(after, Count(after))

MergeInOrder(lines) == LoopInOrder(lines, 0)

\* C27: the result of merge_linestrings is a function of the input list
\* alone: whatever order the parallel candidate filter delivers, the call
\* returns the linestrings it returns when the candidates are tried in
\* index order.
MergeDeterministic ==
    (pc = "done" /\ run = 1) => out1 = MergeInOrder(xs)

\* The same, with a linestring and its reverse taken as equal.
Undirected(ls_vec) == [n \in 1..Len(ls_vec) |-> { ls_vec[n], Rev(ls_vec[n]) }]
MergeDeterministicUndirected ==
    (pc = "done" /\ run = 1) => Undirected(out1) = Undirected(MergeInOrder(xs))

----------------------------------------------------------------------------
(* The segments of the working set.                                        *)

\* The places (slot, position) of the segments of the present linestrings.
SegmentPlaces(ls_vec) ==
    { a \in (1..Len(ls_vec)) \X (1..(MaxSegs + MaxRingSegs + 2)) :
        ls_vec[a[1]] # None /\ a[2] < Len(ls_vec[a[1]]) }
\* The undirected segment at a place: the set of its two ends.
SegmentAt(ls_vec, a) == { ls_vec[a[1]][a[2]], ls_vec[a[1]][a[2] + 1] }
\* How many times the undirected segment seg occurs in the present linestrings.
SegmentCount(ls_vec, seg) ==
    Cardinality({ a \in SegmentPlaces(ls_vec) : SegmentAt(ls_vec, a) = seg })
SegmentsOf(ls_vec) == { SegmentAt(ls_vec, a) : a \in SegmentPlaces(ls_vec) }

\* C28: merge_linestrings neither loses nor invents geometry: at every point
\* of the call the multiset of undirected segments of the present
\* linestrings equals that of the input, and no zero-length segment occurs.
SegmentsPreserved ==
    (pc \in { "pass", "done" } /\ run = 1) =>
        /\ \A seg \in SegmentsOf(linestrings) \cup SegmentsOf(xs) :
               SegmentCount(linestrings, seg) = SegmentCount(xs, seg)
        /\ \A seg \in SegmentsOf(linestrings) : Cardinality(seg) = 2

\* The part that concerns the segments of positive length alone.
SegmentsRetained ==
    (pc \in { "pass", "done" } /\ run = 1) =>
        \A seg \in SegmentsOf(linestrings) \cup SegmentsOf(xs) :
            Cardinality(seg) = 2 => SegmentCount(linestrings, seg) = SegmentCount(xs, seg)

----------------------------------------------------------------------------
(* rotate_start_point (merge_lines.rs 29-42) as a state machine: one       *)
(* action per item drawn from the endlessly repeated coordinates.          *)
(* geoms holds the closed linestring, points the coordinate `at`, i the    *)
(* number of items drawn from `repeated`, subset the returned linestring.  *)

\* The closed linestrings compute_linestring can hand to rotate_start_point.
Rings ==
    UNION { { r \in LineStringsOfLen(n + 1) : is_closed(r) } : n \in 2..MaxRingSegs }

\* The n-th item of std::iter::repeat(coords).flatten().
Repeated(linestring, n) == linestring[((n - 1) % Len(linestring)) + 1]

InitRotate ==
    /\ rule = "rotate_start_point" /\ kind = "LineString"
    /\ \E ring \in Rings : \E at \in Range(ring) :
          /\ geoms = <<ring>>
          /\ points = <<at>>
    /\ others = <<>> /\ candidates = {} /\ addresses = {}
    /\ geometry_errors = <<>> /\ emitted = <<>>
    /\ topology_result = Pending
    /\ step = "loop"
    /\ endpoints = <<>> /\ subset = <<>>
    /\ kernel = [lines |-> <<>>, proper |-> {}, improper |-> {}]
    /\ MergeIdle
    /\ LibIdle

\* lines 35-37: the next coordinate does not intersect `at`; the loop goes on.
RotateSkip ==
    /\ rule = "rotate_start_point" /\ step = "loop"
    /\ Repeated(geoms[1], i) # points[1]
    /\ i' = i + 1
    /\ UNCHANGED <<xs, linestrings, prev_count, pc, run, out1, joins>>
    /\ UNCHANGED <<ruleVars, intersectVars, libVars>>

\* lines 37-38: the coordinate intersects `at`; it is returned followed by
\* the next `count` items of `repeated`.
RotateReturn ==
    /\ rule = "rotate_start_point" /\ step = "loop"
    /\ Repeated(geoms[1], i) = points[1]
    /\ subset' = <<Repeated(geoms[1], i)>>
                 \o [j \in 1..Len(geoms[1]) |-> Repeated(geoms[1], i + j)]
    /\ step' = "done"
    /\ UNCHANGED <<endpoints, kernel, points, ruleVars, mergeVars, libVars>>

NextRotate == RotateSkip \/ RotateReturn

SpecRotate == InitRotate /\ [][NextRotate]_vars

\* The call returns once the loop may always take its next step.
FairSpecRotate == SpecRotate /\ WF_vars(NextRotate)

\* The cyclic sequence of vertices of a closed linestring: its coordinates
\* without the closing one, up to the choice of the first.
CycleOf(ring) == SubSeq(ring, 1, Len(ring) - 1)
SameCycle(a, b) ==
    /\ Len(a) = Len(b)
    /\ \E k \in 0..(Len(a) - 1) :
          \A n \in 1..Len(a) : b[n] = a[((n - 1 + k) % Len(a)) + 1]

\* C25: rotate_start_point, applied to a closed ring and one of its vertices,
\* returns a closed linestring that starts and ends at `at`, visits the same
\* cyclic vertex sequence, has the same number of coordinates as the ring,
\* and holds no two equal consecutive coordinates.
RotateKeepsRing ==
    (rule = "rotate_start_point" /\ step = "done") =>
        /\ subset[1] = points[1] /\ subset[Len(subset)] = points[1]
        /\ Len(subset) = Len(geoms[1])
        /\ \A n \in 1..(Len(subset) - 1) : subset[n] # subset[n + 1]
        /\ SameCycle(CycleOf(geoms[1]), CycleOf(subset))

\* The call returns, starting and ending at `at`.
RotateTerminates == <>(step = "done")
RotateEndsAtCoord ==
    (rule = "rotate_start_point" /\ step = "done") =>
        /\ subset[1] = points[1] /\ subset[Len(subset)] = points[1]
        /\ subset = rotate_start_point(geoms[1], points[1])

----------------------------------------------------------------------------
(* merge_lines_optimized.rs: merge_linestring_optimized as a state machine. *)
(* xs holds `lines`, kernel the value of intersections(), points the        *)
(* `point_intersections`, candidates the indices `for line in lines.iter()` *)
(* has still to visit, linestrings the `merged_lines` in insertion order,   *)
(* subset the `prev_line`, out1 the returned Vec.                           *)

\* check_line_in_merged_lines: some merged line contains `line`.
check_line_in_merged_lines(merged_lines, line) ==
    \E n \in 1..Len(merged_lines) : LsContainsLs(merged_lines[n], line)

\* check_lines_intersect_points: a point intersection lies on one of `lines`.
check_lines_intersect_points(lines, point_tree) ==
    \E n \in 1..Len(lines) : \E m \in 1..Len(point_tree) :
        LsIntersectsCoord(lines[n], point_tree[m])

\* lines 82-89: the indices of the lines that intersect `line`, differ from
\* it and are not contained in a merged line.
intersecting_lines(lines, merged_lines, line) ==
    { j \in 1..Len(lines) :
        /\ LsIntersectsLs(lines[j], line)
        /\ lines[j] # line
        /\ ~ check_line_in_merged_lines(merged_lines, lines[j]) }

\* lines 94-105: the computed line for one delivery order `ord` of the
\* intersecting lines; `panics` when an unwrap meets None.
ComputedLine(lines, point_tree, line, ord) ==
    LET inter == [n \in 1..Len(ord) |-> lines[ord[n]]]
    IN  IF Len(ord) = 1
        THEN [panics |-> FALSE, ls |-> merge_two(inter[1], line).ls]
        ELSE IF Len(ord) = 2 /\ ~ check_lines_intersect_points(inter, point_tree)
        THEN LET first == merge_two(inter[1], line)
             IN  IF ~ first.ok THEN [panics |-> TRUE, ls |-> None]
                 ELSE LET second == merge_two(inter[2], first.ls)
                      IN  [panics |-> ~ second.ok, ls |-> second.ls]
        ELSE [panics |-> FALSE, ls |-> None]

InitOptimized ==
    /\ xs \in InputLists(MaxSegs)
    /\ linestrings = <<>> /\ i = 1 /\ prev_count = 0
    /\ pc = "idle" /\ run = 1 /\ out1 = <<>> /\ joins = {}
    /\ rule = "merge_linestring_optimized" /\ kind = "LineString"
    /\ geoms = <<>> /\ others = <<>>
    /\ candidates = {} /\ addresses = {}
    /\ geometry_errors = <<>> /\ emitted = <<>>
    /\ topology_result = Pending
    /\ step = "intersections"
    /\ endpoints = <<>> /\ subset = <<>>
    /\ kernel = [lines |-> <<>>, proper |-> {}, improper |-> {}]
    /\ points = <<>>
    /\ LibIdle

\* lines 63-72: the point intersections of the segments of all lines.
OptimizedIntersections ==
    /\ rule = "merge_linestring_optimized" /\ step = "intersections"
    /\ kernel' = intersections(explode_linestrings(xs))
    /\ points' = SetToSortedSeq(kernel'.proper) \o SetToSortedSeq(kernel'.improper)
    /\ candidates' = 1..Len(xs)
    /\ step' = "for"
    /\ UNCHANGED <<endpoints, subset, mergeVars, libVars>>
    /\ UNCHANGED <<rule, kind, geoms, others, addresses, geometry_errors, emitted, topology_result>>

\* lines 74-77: the next line of the tree is contained in a merged line.
OptimizedSkip ==
    /\ rule = "merge_linestring_optimized" /\ step = "for"
    /\ \E k \in candidates :
          /\ check_line_in_merged_lines(linestrings, xs[k])
          /\ candidates' = candidates \ {k}
    /\ UNCHANGED <<intersectVars, mergeVars, libVars>>
    /\ UNCHANGED <<rule, kind, geoms, others, addresses, geometry_errors, emitted, topology_result>>

\* lines 74-78: the next line of the tree becomes prev_line.
OptimizedStart ==
    /\ rule = "merge_linestring_optimized" /\ step = "for"
    /\ \E k \in candidates :
          /\ ~ check_line_in_merged_lines(linestrings, xs[k])
          /\ candidates' = candidates \ {k}
          /\ subset' = xs[k]
    /\ step' = "loop"
    /\ UNCHANGED <<endpoints, kernel, points, mergeVars, libVars>>
    /\ UNCHANGED <<rule, kind, geoms, others, addresses, geometry_errors, emitted, topology_result>>

\* lines 79-114: one iteration of the inner loop.
OptimizedLoop ==
    /\ rule = "merge_linestring_optimized" /\ step = "loop"
    /\ \E ord \in Orders(intersecting_lines(xs, linestrings, subset)) :
       \E computed_line \in { ComputedLine(xs, points, subset, ord) } :
          IF Len(ord) = 0
          THEN /\ linestrings' = Append(linestrings, subset)
               /\ subset' = None
               /\ step' = "for"
          ELSE IF computed_line.panics
          THEN /\ step' = "panic"
               /\ UNCHANGED <<linestrings, subset>>
          ELSE IF computed_line.ls = subset \/ computed_line.ls = None
          THEN /\ subset' = None
               /\ step' = "for"
               /\ UNCHANGED linestrings
          ELSE /\ linestrings' = Append(linestrings, computed_line.ls)
               /\ subset' = computed_line.ls
               /\ step' = "loop"
    /\ UNCHANGED <<xs, i, prev_count, pc, run, out1, joins>>
    /\ UNCHANGED <<endpoints, kernel, points, ruleVars, libVars>>

\* line 116: the merged lines are returned, in the order the tree yields them.
OptimizedReturn ==
    /\ rule = "merge_linestring_optimized" /\ step = "for"
    /\ candidates = {}
    /\ \E ord \in Orders(1..Len(linestrings)) :
          out1' = [n \in 1..Len(linestrings) |-> linestrings[ord[n]]]
    /\ step' = "done"
    /\ UNCHANGED <<xs, linestrings, i, prev_count, pc, run, joins>>
    /\ UNCHANGED <<endpoints, subset, kernel, points, ruleVars, libVars>>

NextOptimized ==
    \/ OptimizedIntersections \/ OptimizedSkip \/ OptimizedStart
    \/ OptimizedLoop \/ OptimizedReturn

SpecOptimized == InitOptimized /\ [][NextOptimized]_vars

\* C29: merge_linestring_optimized, given a simple open chain of three or
\* more linestrings, returns exactly one linestring, the whole chain in
\* order: no intermediate partial merge and no second copy is returned.
OptimizedChainMergedOnce ==
    (rule = "merge_linestring_optimized" /\ step = "done"
        /\ Len(xs) >= 3 /\ IsChain(xs)) =>
        out1 = << ChainCoords(xs) >>

\* The whole chain is among the returned linestrings, in one direction or the other.
OptimizedChainReturned ==
    (rule = "merge_linestring_optimized" /\ step = "done"
        /\ Len(xs) >= 3 /\ IsChain(xs)) =>
        \E n \in 1..Len(out1) : out1[n] \in { ChainCoords(xs), Rev(ChainCoords(xs)) }

----------------------------------------------------------------------------
(* main.rs: interactive_mode.  A line is its leading whitespace, its       *)
(* whitespace-separated tokens and its trailing whitespace (the newline    *)
(* included); a token is a word or a key=value pair.                       *)

Word(w) == [a |-> w, b |-> ""]
Pair(k, v) == [a |-> k, b |-> v]
IsPair(token) == token.b # ""
Line(lead, words, trail) == [read |-> "line", lead |-> lead, words |-> words, trail |-> trail]
\* read_line returned an error (the bytes read are not valid UTF-8, the stream failed).
ReadFailure == [read |-> "error", lead |-> FALSE, words |-> <<>>, trail |-> FALSE]

\* The token sequences of the lines typed at the prompt.
Typed ==
    { << Word("summary") >>,
      << Word("summary"), Word("please") >>,
      << >>,
      << Word("area"), Word("must-not-overlap"), Pair("polygons", "c.shp") >>,
      << Pair("points", "a.shp") >>,
      << Word("point") >>,
      << Word("point"), Word("must-not-overlap"), Pair("points", "a.shp") >>,
      << Word("point"), Word("must-not-overlap"), Pair("--points", "a.shp") >>,
      << Word("point"), Word("must-not-overlap"), Pair("points", "\"a.shp\"") >>,
      << Word("point"), Word("must-not-overlap"), Pair("points", "a.shp"), Pair("colour", "red") >>,
      << Word("point"), Word("must-not-overlap"), Word("points") >>,
      << Word("point"), Word("must-not-have-dangles"), Pair("points", "a.shp") >>,
      << Word("line"), Word("must-not-have-dangles"), Pair("lines", "b.shp") >>,
      << Word("polygon"), Word("must-not-overlap"), Pair("polygons", "c.shp"),
         Pair("overlaps", "out.shp") >> }

Lines == { Line(lead, words, trail) : lead \in BOOLEAN, words \in Typed, trail \in BOOLEAN }

\* str::trim: the whitespace is dropped at both ends.
trim(line) == [line EXCEPT !.lead = FALSE, !.trail = FALSE]

\* str::trim_end: the trailing whitespace is dropped.
trim_end(line) == [line EXCEPT !.trail = FALSE]
\* The line is `summary` once its trailing whitespace is dropped.
IsSummary(line) == trim_end(line) = Line(FALSE, << Word("summary") >>, FALSE)

\* key.replace("--", "").replace("-", "_") on the keys that are typed.
NormalizeKey(key) == IF key = "--points" THEN "points" ELSE key
\* value.replace("\"", "") on the values that are typed.
Unquote(value) == IF value = "\"a.shp\"" THEN "a.shp" ELSE value

\* lines 402-430: the HashMap built from the captures of the regular
\* expression; a later pair with the same key replaces an earlier one.  The
\* expression has two groups, so `subcaptures.len() != 2` never holds: a
\* token that is not key=value is passed over.
ArgsOf(line) ==
    LET pairs == SelectSeq(line.words, IsPair)
        keys == { NormalizeKey(pairs[n].a) : n \in 1..Len(pairs) }
        last(k) == CHOOSE n \in 1..Len(pairs) :
                      /\ NormalizeKey(pairs[n].a) = k
                      /\ \A m \in (n + 1)..Len(pairs) : NormalizeKey(pairs[m].a) # k
    IN  [k \in keys |-> Unquote(pairs[last(k)].b)]

\* The struct variants of Command these lines can name: the fields that
\* must be given and the optional ones (main.rs 91-101, 162-169, 200-207).
CommandVariants ==
    { [geometry |-> "point", rule |-> "must-not-overlap",
       required |-> { "points" }, optional |-> { "overlaps" }],
      [geometry |-> "line", rule |-> "must-not-have-dangles",
       required |-> { "lines" }, optional |-> { "dangles" }],
      [geometry |-> "polygon", rule |-> "must-not-overlap",
       required |-> { "polygons" }, optional |-> { "overlaps" }] }

\* Command::deserialize of {geometry: {"command": {rule: args}}}: the variant
\* must exist and its required fields be given; unknown fields are ignored.
deserialize(geometry, rule_word, args) ==
    LET rows == { v \in CommandVariants :
                    v.geometry = geometry /\ v.rule = rule_word
                    /\ v.required \subseteq DOMAIN args }
    IN  IF rows = {} THEN [ok |-> FALSE, value |-> None]
        ELSE LET v == CHOOSE row \in rows : TRUE
             IN  [ok |-> TRUE,
                  value |-> [geometry |-> geometry, rule |-> rule_word,
                             fields |-> [k \in DOMAIN args \cap (v.required \cup v.optional)
                                            |-> args[k]]]]

Contains(vec, x) == \E n \in 1..Len(vec) : vec[n] = x

\* lines 379-451: the body of the loop for a line that is not `summary`.
Accepted(cmds, line) ==
    LET words == line.words
    IN  IF words = <<>> THEN cmds
        ELSE IF IsPair(words[1])
                \/ words[1].a \notin { "point", "geometry", "polygon", "line" } THEN cmds
        ELSE IF Len(words) < 2 THEN cmds
        ELSE LET deserialized ==
                    deserialize(words[1].a,
                                IF IsPair(words[2]) THEN "" ELSE words[2].a, ArgsOf(line))
             IN  IF ~ deserialized.ok THEN cmds
                 ELSE IF Contains(cmds, deserialized.value) THEN cmds
                 ELSE Append(cmds, deserialized.value)

\* What parse_rules can return for a command.
InteractiveResults == { Valid, Errors(<< TopologyError("Point", << <<0, 0>> >>) >>) }

InitInteractive ==
    /\ input = NoInput /\ commands = <<>>
    /\ results = <<>> /\ cursor = <<1, 1>>
    /\ dataset = <<>> /\ committed = <<>>
    /\ outcome = [tag |-> "none"]
    /\ accessor = "none" /\ command = "interactive"
    /\ rule = "none" /\ kind = "none"
    /\ geoms = <<>> /\ others = <<>>
    /\ candidates = {} /\ addresses = {}
    /\ geometry_errors = <<>> /\ emitted = <<>>
    /\ topology_result = Pending
    /\ step = "read"
    /\ endpoints = <<>> /\ subset = <<>>
    /\ kernel = [lines |-> <<>>, proper |-> {}, improper |-> {}]
    /\ points = <<>>
    /\ MergeIdle

\* lines 371-452: one iteration of the reading loop.
ReadLine ==
    /\ command = "interactive" /\ step = "read"
    /\ \E line \in Lines \cup { ReadFailure } :
          /\ input' = line
          /\ IF line.read = "error"
             THEN /\ outcome' = Err("read_line")
                  /\ step' = "done"
                  /\ UNCHANGED <<commands, candidates>>
             ELSE IF IsSummary(line)
             THEN /\ step' = "evaluate"
                  /\ candidates' = 1..Len(commands)
                  /\ UNCHANGED <<commands, outcome>>
             ELSE /\ commands' = Accepted(commands, line)
                  /\ UNCHANGED <<step, outcome, candidates>>
    /\ UNCHANGED <<results, cursor, dataset, committed, accessor, command>>
    /\ UNCHANGED <<rule, kind, geoms, others, addresses, geometry_errors, emitted, topology_result>>
    /\ UNCHANGED <<endpoints, subset, kernel, points, mergeVars>>

\* lines 454-472: a worker has evaluated a command drawn from the bridge and
\* its (rule name, result) pair is the next one the collected Vec holds.
WorkerCollects ==
    /\ command = "interactive" /\ step = "evaluate"
    /\ \E index \in candidates : \E r \in InteractiveResults :
          /\ results' = Append(results,
                               [rule_name |-> << index, commands[index].rule >>, result |-> r])
          /\ candidates' = candidates \ { index }
    /\ UNCHANGED <<cursor, dataset, committed, outcome, accessor, command, input, commands>>
    /\ UNCHANGED <<rule, kind, geoms, others, addresses, geometry_errors, emitted, topology_result>>
    /\ UNCHANGED <<intersectVars, mergeVars>>

\* lines 468-473: rule_name or parse_rules returned an error for a command.
WorkerFails ==
    /\ command = "interactive" /\ step = "evaluate"
    /\ candidates # {}
    /\ outcome' = Err("parse_rules")
    /\ step' = "done"
    /\ UNCHANGED <<results, cursor, dataset, committed, accessor, command, input, commands>>
    /\ UNCHANGED <<ruleVars, endpoints, subset, kernel, points, mergeVars>>

\* lines 473-475: TopologyResults::new(results?) is handed to export.
HandToExport ==
    /\ command = "interactive" /\ step = "evaluate"
    /\ candidates = {}
    /\ step' = "export"
    /\ UNCHANGED <<libVars, ruleVars, endpoints, subset, kernel, points, mergeVars>>

\* lines 475-478: export returns, and interactive_mode with it.
InteractiveReturns ==
    /\ command = "interactive" /\ step = "export"
    /\ outcome' \in { Ok, Err("export") }
    /\ step' = "done"
    /\ UNCHANGED <<results, cursor, dataset, committed, accessor, command, input, commands>>
    /\ UNCHANGED <<ruleVars, endpoints, subset, kernel, points, mergeVars>>

NextInteractive ==
    ReadLine \/ WorkerCollects \/ WorkerFails \/ HandToExport \/ InteractiveReturns

SpecInteractive == InitInteractive /\ [][NextInteractive]_vars

\* C24: the TopologyResults handed to export lists the results in the order
\* the commands were accepted: the k-th entry is the result of the k-th
\* accepted command and is named k-<rule>, whatever the interleaving of the
\* parallel workers.
ResultsInAcceptedOrder ==
    (command = "interactive" /\ step = "export") =>
        /\ Len(results) = Len(commands)
        /\ \A k \in 1..Len(results) : results[k].rule_name = << k, commands[k].rule >>

\* The part that does not depend on the order: one result for each accepted
\* command, named by its index and rule, and no name twice.
ResultsNamedByIndex ==
    (command = "interactive" /\ step = "export") =>
        /\ Len(results) = Len(commands)
        /\ \A k \in 1..Len(commands) :
               \E n \in 1..Len(results) : results[n].rule_name = << k, commands[k].rule >>
        /\ \A n, m \in 1..Len(results) :
               n # m => results[n].rule_name # results[m].rule_name

\* The line just read is `summary`, followed by any whitespace.
SummaryRead ==
    /\ input'.read = "line"
    /\ ~ input'.lead
    /\ input'.words = << Word("summary") >>

\* A step of the reading loop leaves the list as it is or appends one
\* command that the list does not hold.
ListStep ==
    \/ commands' = commands
    \/ /\ Len(commands') = Len(commands) + 1
       /\ SubSeq(commands', 1, Len(commands)) = commands
       /\ ~ Contains(commands, commands'[Len(commands')])
       /\ \E v \in CommandVariants :
             /\ commands'[Len(commands')].geometry = v.geometry
             /\ commands'[Len(commands')].rule = v.rule
             /\ v.required \subseteq DOMAIN commands'[Len(commands')].fields

\* No rule has been evaluated.
NothingEvaluated == results = <<>> /\ topology_result = Pending

====
